---- MODULE Spec2Model ----
(***************************************************************************)
(* A model of the stateful parts of the aws-base service templates:        *)
(*   - agsys/common/api_client.py : ServiceAPIClient (API-key cache and    *)
(*     header injection over Secrets Manager and an HTTP client);          *)
(*   - backend/vector/main.py     : the embedding endpoints over S3;       *)
(*   - backend/api/main.py        : GET /inter-service.                    *)
(* Python's None is the value NONE; an attribute that was never assigned   *)
(* is UNSET.  Strings are strings; a dict is a function.                   *)
(***************************************************************************)
EXTENDS Integers, Sequences, FiniteSets, TLC

NONE == "<None>"
UNSET == "<unset>"

\* ------------------------------------------------------------------ bounds
\* Threads that may call into one ServiceAPIClient.
NThreads == 2
\* How many times the secret is rotated in Secrets Manager.
MaxRotations == 2

\* The longest embedding vector.
MaxDim == 2
MaxUrlLen == 3
MaxCreateCalls == 3
MaxHttpClients == 2
MaxInvocations == 3

Threads == 1..NThreads

\* ------------------------------------------------------------- environment
\* The SecretString held by Secrets Manager at each version of the secret.
\* Secrets Manager does not store an empty SecretString, so every key is a
\* non-empty string; each rotation installs a key never used before.
KeyNames == <<"key-v1", "key-v2", "key-v3", "key-v4", "key-v5">>
SecretString(v) == KeyNames[v]
VersionOf(k) == CHOOSE v \in 1..Len(KeyNames) : KeyNames[v] = k

\* What a get_secret_value call can produce: a response holding SecretString,
\* a None response, a response without SecretString (a binary secret), a
\* ClientError with code ResourceNotFoundException, a ClientError with another
\* code, or an exception that is no ClientError (botocore's
\* EndpointConnectionError, NoCredentialsError, ReadTimeoutError, ...).
SMOutcomes == {"ok", "none", "nosecretstring", "notfound", "clienterror", "othererror"}

\* Values of an optional string argument or environment variable.
ArgValues == {NONE, "", "arg"}
EnvValues == {NONE, "", "env"}

Methods == {"get", "post", "put", "delete"}

\* The headers argument of a request: None, or a dict.
EmptyDict == [n \in {} |-> ""]
NoHeaders == [isNone |-> TRUE, dict |-> EmptyDict]
HeaderArgs ==
    { NoHeaders,
      [isNone |-> FALSE, dict |-> ("accept" :> "json")],
      [isNone |-> FALSE, dict |-> ("accept" :> "json" @@ "x-api-key" :> "caller-key")] }

VARIABLES
    environ,          \* os.environ: PROJECT_NAME and ENVIRONMENT (NONE: not set)
    constructed,      \* "no", "yes", or "ValueError" (the constructor raised)
    init_args,        \* the arguments of the constructor call
    project_name,     \* self.project_name
    environment,      \* self.environment
    cache_api_key,    \* self.cache_api_key
    cached_api_key,   \* self._cached_api_key
    async_client,     \* self._async_client
    secrets_client,   \* self._secrets_client
    secret_version,   \* the version of the secret Secrets Manager holds
    pc,               \* per thread: the statement it is about to execute
    frame,            \* per thread: the locals of the call in progress
    last,             \* the call that completed last, as its caller saw it
    hist              \* what happened since the last invalidation

clientVars == <<environ, constructed, init_args, project_name, environment,
                cache_api_key, cached_api_key, async_client, secrets_client,
                secret_version, pc, frame, last, hist>>

\* The vector service (backend/vector/main.py) and the S3 bucket behind it.
VARIABLES
    bucket_name,      \* VECTOR_BUCKET_NAME ("" when the variable is not set)
    s3,               \* the bucket: object key -> body
    bedrock_client,   \* AWSClients._bedrock
    s3_client,        \* AWSClients._s3
    resp,             \* the response to the request handled last
    told,             \* per id, what the last 200 of store/generate/delete told
    req               \* the request handled last, as the client sent it

storeVars == <<bucket_name, s3, bedrock_client, s3_client, resp, told, req>>

\* The api service (backend/api/main.py): the shared outbound HTTP client.
VARIABLES
    http_client,      \* app.state.http_client: UNSET, "open" or "closed"
    iresp             \* the response to the GET /inter-service handled last

interVars == <<http_client, iresp>>

\* One service process (its main.py) from import to serving requests.
VARIABLES
    service,          \* which service's main.py this process runs
    routes,           \* app.router.routes and exception handlers, in registration order
    imported,         \* how many of main.py's registering statements have run
    wresp             \* the response to the request handled last

webVars == <<service, routes, imported, wresp>>

\* get_service_url and the process environment it reads.
VARIABLES
    gateway_url,      \* os.environ's API_GATEWAY_URL, if set
    url_call          \* the last call of get_service_url and its outcome

urlVars == <<gateway_url, url_call>>

\* The lazily created SDK clients, accessed through their properties.
VARIABLES
    boto3_calls,      \* how many times boto3.client(kind) has been called
    accessed          \* the last access of a client property and what it gave

lazyVars == <<boto3_calls, accessed>>

\* The coroutines of one ServiceAPIClient on one event loop.
VARIABLES
    http_clients,     \* every httpx.AsyncClient the client has made: name -> state
    task,             \* per task, the await it is suspended at
    hevent            \* the last thing a task did with an HTTP client

asyncVars == <<http_clients, task, hevent>>

\* A Lambda container: the thread's event loop and what app.state holds.
VARIABLES
    loop,             \* the event loop asyncio has set for the thread, if any
    loop_id,          \* app.state._loop_id
    holds,            \* the client app.state.http_client holds, and its loop
    made,             \* how many loops and clients the process has created
    invocation        \* the last invocation of handler(event, context)

lambdaVars == <<loop, loop_id, holds, made, invocation>>

vars == <<clientVars, storeVars, interVars, webVars, urlVars, lazyVars, asyncVars,
          lambdaVars>>

\* What the actions of one component leave alone.
notClient == <<storeVars, interVars, webVars, urlVars, lazyVars, asyncVars, lambdaVars>>
notStore == <<clientVars, interVars, webVars, urlVars, lazyVars, asyncVars, lambdaVars>>
notInter == <<clientVars, storeVars, webVars, urlVars, lazyVars, asyncVars, lambdaVars>>
notWeb == <<clientVars, storeVars, interVars, urlVars, lazyVars, asyncVars, lambdaVars>>
notUrl == <<clientVars, storeVars, interVars, webVars, lazyVars, asyncVars, lambdaVars>>
notClientNorStore == <<interVars, webVars, urlVars, asyncVars, lambdaVars>>
notClientNorAsync == <<storeVars, interVars, webVars, urlVars, lazyVars, lambdaVars>>
\* What an invocation of a Lambda handler leaves alone.
onlyLambda == <<clientVars, storeVars, urlVars, lazyVars, asyncVars, iresp, service,
                routes, imported>>

\* ------------------------------------------------------------ Python bits
\* bool(v) of an Optional[str].
Truthy(v) == v # NONE /\ v # ""
\* a or b
PyOr(a, b) == IF Truthy(a) THEN a ELSE b

\* The classes an exception is an instance of.
Mro(exc) ==
    CASE exc = "NoSuchKey" -> {"NoSuchKey", "ClientError", "Exception"}
      [] exc \in {"ConnectError", "ReadTimeout", "UnsupportedProtocol"} ->
            {exc, "TransportError", "RequestError", "HTTPError", "Exception"}
      [] exc \in {"TooManyRedirects", "DecodingError"} ->
            {exc, "RequestError", "HTTPError", "Exception"}
      [] exc \in {"JSONDecodeError", "ValidationError"} ->
            {exc, "ValueError", "Exception"}
      [] OTHER -> {exc, "Exception"}

\* try: ... except handlers[1]: ... except handlers[2]: ...  The clause that
\* catches exc raised in the try body: the first whose class exc is an
\* instance of, or "uncaught".
Catch(handlers, exc) ==
    LET hits == {i \in 1..Len(handlers) : handlers[i] \in Mro(exc)}
    IN  IF hits = {} THEN "uncaught"
        ELSE handlers[CHOOSE i \in hits : \A j \in hits : i <= j]

\* "if self._x is None: self._x = boto3.client(...)" and "return self._x":
\* the attribute after the property was read, fresh being the client a
\* boto3.client call would return.
LazyClientAlwaysCreates(attr, fresh) == fresh
LazyClient(attr, fresh) == IF attr = NONE THEN fresh ELSE attr

\* --------------------------------------------------- ServiceAPIClient.__init__
\* The validation of lines 62-69: the constructor raises ValueError.
InitRaisesIfMissingOnly(p, e) == p = NONE \/ e = NONE
InitRaises(p, e) == ~Truthy(p) \/ ~Truthy(e)

NoArgs == [project_name |-> NONE, environment |-> NONE, cache_api_key |-> TRUE]
IdleFrame == [op |-> "none", headers |-> NoHeaders, api_key |-> NONE,
              sm |-> "nocall", startedCached |-> FALSE, afterInval |-> FALSE]
NoCall == [op |-> "none", kind |-> "none", key |-> NONE, sent |-> FALSE,
           headers |-> EmptyDict, sm |-> "nocall", startedCached |-> FALSE,
           afterInval |-> FALSE]
FreshHist == [okSeen |-> FALSE, firstKey |-> NONE, refetched |-> FALSE,
              atInval |-> 0, pendingInval |-> FALSE]

\* ServiceAPIClient(service_name, project_name=pn, environment=en, cache_api_key=ck)
Construct(pn, en, ck) ==
    /\ constructed = "no"
    /\ init_args' = [project_name |-> pn, environment |-> en, cache_api_key |-> ck]
    /\ project_name' = PyOr(pn, environ.PROJECT_NAME)
    /\ environment' = PyOr(en, environ.ENVIRONMENT)
    /\ cache_api_key' = ck
    /\ IF InitRaises(project_name', environment')
         THEN /\ constructed' = "ValueError"
              /\ UNCHANGED <<cached_api_key, async_client, secrets_client>>
         ELSE /\ constructed' = "yes"
              /\ cached_api_key' = NONE
              /\ async_client' = NONE
              /\ secrets_client' = NONE
    /\ UNCHANGED <<notClient, environ, secret_version, pc, frame, last, hist>>

\* ------------------------------------------------------------- get_api_key
\* Line 100: the cached key is returned.
CacheHit == cache_api_key /\ Truthy(cached_api_key)

\* Lines 113-114: the fetched key is cached.
StoresFetchedKeyAlways == TRUE
StoresFetchedKeyNever == FALSE
StoresFetchedKey == cache_api_key

\* Lines 105-128: what get_secret_value's outcome raises inside the try (line
\* 108 raises RuntimeError itself), and the except clauses of that try.
GakRaised(o) ==
    CASE o \in {"none", "nosecretstring"} -> "RuntimeError"
      [] o \in {"notfound", "clienterror"} -> "ClientError"
      [] o = "othererror" -> "BotoCoreError"
GakHandlers == <<"ClientError">>
\* What leaves get_api_key: lines 121 and 126 turn a ClientError into
\* RuntimeError; anything the clauses do not catch propagates as it is.
GakPropagates(o) ==
    IF Catch(GakHandlers, GakRaised(o)) = "ClientError" THEN "RuntimeError"
    ELSE GakRaised(o)

\* Line 132: what invalidate_api_key_cache leaves in the cache.
InvalidatedKeeps == cached_api_key
Invalidated == NONE

\* Lines 138-139: the caller's headers (or {}) with x-api-key set to the key.
GetHeadersSetDefault(headers, api_key) ==
    LET base == IF headers.isNone \/ DOMAIN headers.dict = {} THEN EmptyDict
                ELSE headers.dict
    IN  [n \in DOMAIN base \cup {"x-api-key"} |->
            IF n \in DOMAIN base THEN base[n] ELSE api_key]
GetHeaders(headers, api_key) ==
    LET base == IF headers.isNone \/ DOMAIN headers.dict = {} THEN EmptyDict
                ELSE headers.dict
    IN  [n \in DOMAIN base \cup {"x-api-key"} |->
            IF n = "x-api-key" THEN api_key ELSE base[n]]

\* The call of thread t ends: its caller sees `kind` ("value": get_api_key
\* returned `key`; "response": the request was sent; otherwise the class of the exception that
\* propagated to the caller).
Complete(t, kind, key, sent, hdrs, sm) ==
    /\ pc' = [pc EXCEPT ![t] = "idle"]
    /\ frame' = [frame EXCEPT ![t] = IdleFrame]
    /\ last' = [op |-> frame[t].op, kind |-> kind, key |-> key, sent |-> sent,
                headers |-> hdrs, sm |-> sm,
                startedCached |-> frame[t].startedCached,
                afterInval |-> frame[t].afterInval]

\* get_api_key returns `key` (line 101 or 116) to its caller: the caller of
\* get_api_key itself, or _get_headers inside a request (line 136).
GakReturns(t, key, sm) ==
    IF frame[t].op = "get_api_key"
      THEN Complete(t, "value", key, FALSE, EmptyDict, sm)
      ELSE /\ pc' = [pc EXCEPT ![t] = "send"]
           /\ frame' = [frame EXCEPT ![t].api_key = key, ![t].sm = sm]
           /\ UNCHANGED last

\* get_api_key raises: the exception propagates through _get_headers and the
\* request method, so nothing is sent.
GakRaises(t, kind, sm) == Complete(t, kind, NONE, FALSE, EmptyDict, sm)

NewFrame(op, h) ==
    [op |-> op, headers |-> h, api_key |-> NONE, sm |-> "nocall",
     startedCached |-> hist.okSeen, afterInval |-> hist.pendingInval]

\* A call may start: when `serial`, only while no other call is in progress.
MayStart(t, serial) ==
    /\ constructed = "yes"
    /\ pc[t] = "idle"
    /\ serial => \A u \in Threads : pc[u] = "idle"

\* client.get_api_key() is called.
CallGetApiKey(t, serial) ==
    /\ MayStart(t, serial)
    /\ pc' = [pc EXCEPT ![t] = "gak100"]
    /\ frame' = [frame EXCEPT ![t] = NewFrame("get_api_key", NoHeaders)]
    /\ hist' = [hist EXCEPT !.pendingInval = FALSE]
    /\ UNCHANGED <<notClient, environ, constructed, init_args, project_name, environment,
                   cache_api_key, cached_api_key, async_client, secrets_client,
                   secret_version, last>>

\* client.get/post/put/delete(url, headers=h) is called; its first statement
\* (lines 147-154, _get_async_client) creates the HTTP client if there is none.
CallRequest(t, m, h, serial) ==
    /\ MayStart(t, serial)
    /\ async_client' = IF async_client = NONE THEN "open" ELSE async_client
    /\ pc' = [pc EXCEPT ![t] = "gak100"]
    /\ frame' = [frame EXCEPT ![t] = NewFrame(m, h)]
    /\ hist' = [hist EXCEPT !.pendingInval = FALSE]
    /\ UNCHANGED <<notClient, environ, constructed, init_args, project_name, environment,
                   cache_api_key, cached_api_key, secrets_client,
                   secret_version, last>>

\* Line 100: if self.cache_api_key and self._cached_api_key
Gak100(t) ==
    /\ pc[t] = "gak100"
    /\ pc' = [pc EXCEPT ![t] = IF CacheHit THEN "gak101" ELSE "gak106"]
    /\ UNCHANGED <<notClient, environ, constructed, init_args, project_name, environment,
                   cache_api_key, cached_api_key, async_client, secrets_client,
                   secret_version, frame, last, hist>>

\* Line 101: return self._cached_api_key (the attribute is read again)
Gak101(t) ==
    /\ pc[t] = "gak101"
    /\ GakReturns(t, cached_api_key, "nocall")
    /\ UNCHANGED <<notClient, environ, constructed, init_args, project_name, environment,
                   cache_api_key, cached_api_key, async_client, secrets_client,
                   secret_version, hist>>

\* Lines 106-128: self.secrets_client (lines 83-85, created on first use) and
\* get_secret_value, whose outcome is o.
Gak106(t, o) ==
    /\ pc[t] = "gak106"
    /\ secrets_client' = LazyClient(secrets_client, "secretsmanager")
    /\ hist' = [hist EXCEPT
                  !.refetched = @ \/ hist.okSeen,
                  !.okSeen = @ \/ (o = "ok"),
                  !.firstKey = IF o = "ok" /\ ~hist.okSeen
                               THEN SecretString(secret_version) ELSE @]
    /\ CASE o = "ok" ->
              IF StoresFetchedKey
                THEN /\ pc' = [pc EXCEPT ![t] = "gak114"]
                     /\ frame' = [frame EXCEPT
                                    ![t].api_key = SecretString(secret_version),
                                    ![t].sm = o]
                     /\ UNCHANGED last
                ELSE GakReturns(t, SecretString(secret_version), o)
         [] o # "ok" -> GakRaises(t, GakPropagates(o), o)
    /\ UNCHANGED <<notClient, environ, constructed, init_args, project_name, environment,
                   cache_api_key, cached_api_key, async_client, secret_version>>

\* Lines 114-116: self._cached_api_key = api_key; return api_key
Gak114(t) ==
    /\ pc[t] = "gak114"
    /\ cached_api_key' = frame[t].api_key
    /\ GakReturns(t, frame[t].api_key, frame[t].sm)
    /\ UNCHANGED <<notClient, environ, constructed, init_args, project_name, environment,
                   cache_api_key, async_client, secrets_client, secret_version,
                   hist>>

\* Lines 165-170 (and 182, 200, 216): the request goes out with the headers
\* _get_headers built.
Send(t) ==
    /\ pc[t] = "send"
    /\ Complete(t, "response", frame[t].api_key, TRUE,
                GetHeaders(frame[t].headers, frame[t].api_key), frame[t].sm)
    /\ UNCHANGED <<notClient, environ, constructed, init_args, project_name, environment,
                   cache_api_key, cached_api_key, async_client, secrets_client,
                   secret_version, hist>>

\* client.invalidate_api_key_cache(): one assignment (line 132).
Invalidate(t, serial) ==
    /\ MayStart(t, serial)
    /\ cached_api_key' = Invalidated
    /\ hist' = [okSeen |-> FALSE, firstKey |-> NONE, refetched |-> FALSE,
                atInval |-> secret_version, pendingInval |-> TRUE]
    /\ last' = [NoCall EXCEPT !.op = "invalidate", !.kind = "value"]
    /\ UNCHANGED <<notClient, environ, constructed, init_args, project_name, environment,
                   cache_api_key, async_client, secrets_client, secret_version,
                   pc, frame>>

\* The secret is rotated in Secrets Manager.
Rotate ==
    /\ constructed = "yes"
    /\ secret_version <= MaxRotations
    /\ secret_version' = secret_version + 1
    /\ UNCHANGED <<notClient, environ, constructed, init_args, project_name, environment,
                   cache_api_key, cached_api_key, async_client, secrets_client,
                   pc, frame, last, hist>>

\* =========================================================================
\* backend/vector/main.py: the embedding endpoints
\* =========================================================================
\* An id a client sends, as its parts between "/" characters, and as the str
\* the handlers hold.
EmbeddingIdParts == {<<"e1">>, <<"a", "b">>}
RECURSIVE JoinPath(_)
JoinPath(parts) ==
    IF Len(parts) = 1 THEN parts[1]
    ELSE parts[1] \o "/" \o JoinPath(Tail(parts))
EmbeddingIds == {JoinPath(p) : p \in EmbeddingIdParts}
Texts == {"", "hello"}
\* Embedding components stand for floats; json.dumps writes a float by repr,
\* which json.loads reads back to the same float.
Floats == {1}
Embeddings == UNION {[1..n -> Floats] : n \in 0..MaxDim}
MetadataArgs ==
    { [isNone |-> TRUE, dict |-> EmptyDict],
      [isNone |-> FALSE, dict |-> EmptyDict],
      [isNone |-> FALSE, dict |-> ("source" :> "test")] }

\* An S3 or Bedrock call: it is answered, or fails with a ClientError that is
\* not "not found" (AccessDenied, throttling, ...).
AwsOutcomes == {"ok", "ClientError"}
BedrockOutcomes == {"ok", "ClientError", "OtherError"}

\* f"embeddings/{embedding_id}.json" where each handler builds it
\* (lines 442, 360 and 397).
StoreKeyFlat(id) == id \o ".json"
StoreKey(id) == "embeddings/" \o id \o ".json"
RetrieveKey(id) == "embeddings/" \o id \o ".json"
DeleteKey(id) == "embeddings/" \o id \o ".json"

\* request.metadata or {}  (line 335)
MetadataOrEmpty(m) == IF m.isNone \/ DOMAIN m.dict = {} THEN EmptyDict ELSE m.dict

\* The document store_embedding_in_s3 builds (lines 431-438).  created_at is
\* the time of the call; no handler reads it back.
Document(id, text, embedding, metadata) ==
    [id |-> id, text |-> text, embedding |-> embedding,
     dimension |-> Len(embedding), metadata |-> metadata, created_at |-> "now"]

\* json.dumps of a dict: the members in insertion order; json.loads of that
\* text: a dict again, a repeated name keeping its last value.
DocFields == <<"id", "text", "embedding", "dimension", "metadata", "created_at">>
JsonDumps(d) == [i \in 1..Len(DocFields) |-> <<DocFields[i], d[DocFields[i]]>>]
JsonLoads(body) ==
    [n \in {body[i][1] : i \in 1..Len(body)} |->
        body[CHOOSE i \in 1..Len(body) :
                /\ body[i][1] = n
                /\ \A j \in 1..Len(body) : body[j][1] = n => j <= i][2]]

\* s3.put_object (line 440): botocore rejects an empty bucket name with
\* ParamValidationError before anything is sent.
PutObjectOutcome(o) == IF bucket_name = "" THEN "OtherError" ELSE o

\* The bucket after delete_object (line 408).
AfterDeleteObjectKept(objs, key) == objs
AfterDeleteObject(objs, key) == [k \in DOMAIN objs \ {key} |-> objs[k]]

\* The except clauses of retrieve_embedding (lines 377, 379) and of
\* delete_embedding's outer try (lines 418, 420).
RetrieveHandlers == <<"NoSuchKey", "Exception">>
DeleteHandlersGenericOnly == <<"Exception">>
DeleteHandlers == <<"HTTPException", "Exception">>

NotFoundDetail(id) == "Embedding not found: " \o id
NoBody == EmptyDict
NeverTold == [state |-> "never", text |-> "", embedding |-> <<>>, metadata |-> EmptyDict]

\* A response.  found: what the handler's lookup of the object said ("found",
\* "missing", "error", or "nocall"); calls: the AWS calls the handler made;
\* changed: whether the bucket's contents changed.
Response(op, id, status, detail, body, found, calls, changed) ==
    [op |-> op, id |-> id, status |-> status, detail |-> detail, body |-> body,
     found |-> found, calls |-> calls, changed |-> changed]
NoResponse == Response("none", NONE, 0, "", NoBody, "nocall", <<>>, FALSE)

\* The path template of retrieve_embedding and delete_embedding (lines 350,
\* 387): a {parameter} takes one non-empty part of the path, never a "/".
EmbeddingRoute == <<"embeddings", "{embedding_id}">>
IsPathParam(part) == part = "{embedding_id}"
RouteMatches(route, path) ==
    /\ Len(path) = Len(route)
    /\ \A i \in 1..Len(route) :
          IF IsPathParam(route[i]) THEN path[i] # "" ELSE path[i] = route[i]

\* No route takes the path: the framework answers 404 and no handler runs.
NoRoute(op, id) ==
    /\ resp' = Response(op, id, 404, "Not Found", NoBody, "nocall", <<>>, FALSE)
    /\ UNCHANGED <<s3, s3_client, told>>

\* A request to an embedding endpoint: the fields of its body or path.
Request(op, text, store_in_s3, embedding_id) ==
    [op |-> op, text |-> text, store_in_s3 |-> store_in_s3,
     embedding_id |-> embedding_id]
NoRequest == Request("none", "", FALSE, NONE)

UseS3 == s3_client' = LazyClient(s3_client, "s3")
UseBedrock == bedrock_client' = LazyClient(bedrock_client, "bedrock-runtime")

\* POST /embeddings/store (lines 322-346)
StoreEmbedding(id, text, embedding, metadata, o) ==
    IF bucket_name = ""
      THEN /\ resp' = Response("store", id, 503, "S3 bucket not configured",
                               NoBody, "nocall", <<>>, FALSE)
           /\ UNCHANGED <<s3, s3_client, told>>
      ELSE /\ UseS3
           /\ IF PutObjectOutcome(o) = "ok"
                THEN /\ s3' = (StoreKey(id) :>
                                  JsonDumps(Document(id, text, embedding,
                                                     MetadataOrEmpty(metadata))))
                              @@ s3
                     /\ resp' = Response("store", id, 200, "",
                                   [success |-> TRUE,
                                    s3_key |-> "embeddings/" \o id \o ".json",
                                    bucket |-> bucket_name],
                                   "nocall", <<"put_object">>, s3' # s3)
                     /\ told' = [told EXCEPT ![id] =
                                   [state |-> "stored", text |-> text,
                                    embedding |-> embedding,
                                    metadata |-> IF metadata.isNone THEN EmptyDict
                                                 ELSE metadata.dict]]
                ELSE /\ resp' = Response("store", id, 500,
                                   "Failed to store embedding: " \o o, NoBody,
                                   "nocall", <<"put_object">>, FALSE)
                     /\ UNCHANGED <<s3, told>>

\* GET /embeddings/{embedding_id} (lines 349-383)
RetrieveEmbedding(id, o) ==
    /\ UNCHANGED <<s3, told>>
    /\ IF bucket_name = ""
         THEN /\ resp' = Response("retrieve", id, 503, "S3 bucket not configured",
                                  NoBody, "nocall", <<>>, FALSE)
              /\ UNCHANGED s3_client
         ELSE /\ UseS3
              /\ CASE o # "ok" ->
                        \* get_object raises a ClientError: line 379 catches it
                        resp' = Response("retrieve", id, 500,
                                   "Failed to retrieve embedding: " \o o, NoBody,
                                   "error", <<"get_object">>, FALSE)
                   [] o = "ok" /\ RetrieveKey(id) \notin DOMAIN s3 ->
                        \* get_object raises NoSuchKey
                        resp' = IF Catch(RetrieveHandlers, "NoSuchKey") = "NoSuchKey"
                                  THEN Response("retrieve", id, 404, NotFoundDetail(id),
                                          NoBody, "missing", <<"get_object">>, FALSE)
                                  ELSE Response("retrieve", id, 500,
                                          "Failed to retrieve embedding: NoSuchKey",
                                          NoBody, "missing", <<"get_object">>, FALSE)
                   [] o = "ok" /\ RetrieveKey(id) \in DOMAIN s3 ->
                        LET data == JsonLoads(s3[RetrieveKey(id)])
                        IN  resp' = Response("retrieve", id, 200, "",
                                      [embedding_id |-> data["id"],
                                       text |-> data["text"],
                                       embedding |-> data["embedding"],
                                       dimension |-> data["dimension"],
                                       metadata |-> IF "metadata" \in DOMAIN data
                                                    THEN data["metadata"]
                                                    ELSE EmptyDict],
                                      "found", <<"get_object">>, FALSE)

\* DELETE /embeddings/{embedding_id} (lines 386-424); oh and od are the
\* outcomes of head_object and delete_object.
DeleteEmbedding(id, oh, od) ==
    IF bucket_name = ""
      THEN /\ resp' = Response("delete", id, 503, "S3 bucket not configured",
                               NoBody, "nocall", <<>>, FALSE)
           /\ UNCHANGED <<s3, s3_client, told>>
      ELSE /\ UseS3
           /\ CASE oh # "ok" ->
                     /\ resp' = Response("delete", id, 500,
                                   "Failed to delete embedding: " \o oh, NoBody,
                                   "error", <<"head_object">>, FALSE)
                     /\ UNCHANGED <<s3, told>>
                [] oh = "ok" /\ DeleteKey(id) \notin DOMAIN s3 ->
                     \* head_object raises ClientError 404; line 404 raises
                     \* HTTPException(404) inside the outer try
                     /\ resp' = IF Catch(DeleteHandlers, "HTTPException") = "HTTPException"
                                  THEN Response("delete", id, 404, NotFoundDetail(id),
                                          NoBody, "missing", <<"head_object">>, FALSE)
                                  ELSE Response("delete", id, 500,
                                          "Failed to delete embedding: 404: "
                                            \o NotFoundDetail(id),
                                          NoBody, "missing", <<"head_object">>, FALSE)
                     /\ UNCHANGED <<s3, told>>
                [] oh = "ok" /\ DeleteKey(id) \in DOMAIN s3 /\ od # "ok" ->
                     /\ resp' = Response("delete", id, 500,
                                   "Failed to delete embedding: " \o od, NoBody,
                                   "found", <<"head_object", "delete_object">>, FALSE)
                     /\ UNCHANGED <<s3, told>>
                [] oh = "ok" /\ DeleteKey(id) \in DOMAIN s3 /\ od = "ok" ->
                     /\ s3' = AfterDeleteObject(s3, DeleteKey(id))
                     /\ resp' = Response("delete", id, 200, "",
                                   [success |-> TRUE, embedding_id |-> id,
                                    message |-> "Embedding " \o id \o " successfully deleted"],
                                   "found", <<"head_object", "delete_object">>, s3' # s3)
                     /\ told' = [told EXCEPT ![id] = [NeverTold EXCEPT !.state = "deleted"]]

\* The except clauses of generate_embedding (lines 311, 315).
GenerateHandlersGenericOnly == <<"Exception">>
GenerateHandlers == <<"ClientError", "Exception">>
BEDROCK_MODEL_ID == "amazon.titan-embed-text-v2:0"
EmbeddingIdArgs == {NONE, ""} \cup EmbeddingIds

\* The response generate_embedding's except clauses give an exception raised
\* in its try body (HTTPException carries its own status and detail, and
\* str() of it is "status: detail").
GenerateFailure(exc, text, calls) ==
    LET c == Catch(GenerateHandlers, exc)
        status == CASE c = "ClientError" -> 503
                    [] c = "Exception" -> 500
                    [] OTHER -> 400
        detail == CASE c = "ClientError" -> "Bedrock error: " \o exc
                    [] c = "Exception" /\ exc = "HTTPException" ->
                          "Failed to generate embedding: 400: embedding_id required when store_in_s3=true"
                    [] c = "Exception" -> "Failed to generate embedding: " \o exc
                    [] OTHER -> "embedding_id required when store_in_s3=true"
    IN  Response("generate", NONE, status, detail, NoBody, "nocall", calls, FALSE)

\* POST /embeddings/generate (lines 258-319): ob is the outcome of
\* invoke_model, e the embedding Bedrock returns, os the outcome of put_object.
GenerateEmbedding(text, store_in_s3, embedding_id, ob, e, os) ==
    IF text = ""
      THEN \* EmbeddingRequest.text has min_length=1 (line 106): the handler does not run
           /\ resp' = Response("generate", NONE, 422, "validation error", NoBody,
                               "nocall", <<>>, FALSE)
           /\ UNCHANGED <<s3, s3_client, bedrock_client, told>>
      ELSE
        /\ UseBedrock
        /\ CASE ob # "ok" ->
                  /\ resp' = GenerateFailure(ob, text, <<"invoke_model">>)
                  /\ UNCHANGED <<s3, s3_client, told>>
             [] ob = "ok" /\ ~store_in_s3 ->
                  /\ resp' = Response("generate", NONE, 200, "",
                                [embedding |-> e, dimension |-> Len(e),
                                 model |-> BEDROCK_MODEL_ID, text_length |-> Len(text),
                                 stored_in_s3 |-> store_in_s3, s3_key |-> NONE],
                                "nocall", <<"invoke_model">>, FALSE)
                  /\ UNCHANGED <<s3, s3_client, told>>
             [] ob = "ok" /\ store_in_s3 /\ ~Truthy(embedding_id) ->
                  \* line 293 raises HTTPException(400) inside the try
                  /\ resp' = GenerateFailure("HTTPException", text, <<"invoke_model">>)
                  /\ UNCHANGED <<s3, s3_client, told>>
             [] ob = "ok" /\ store_in_s3 /\ Truthy(embedding_id) ->
                  /\ UseS3
                  /\ IF PutObjectOutcome(os) = "ok"
                       THEN /\ s3' = (StoreKey(embedding_id) :>
                                        JsonDumps(Document(embedding_id, text, e, EmptyDict)))
                                     @@ s3
                            /\ resp' = Response("generate", embedding_id, 200, "",
                                          [embedding |-> e, dimension |-> Len(e),
                                           model |-> BEDROCK_MODEL_ID,
                                           text_length |-> Len(text),
                                           stored_in_s3 |-> store_in_s3,
                                           s3_key |-> "embeddings/" \o embedding_id \o ".json"],
                                          "nocall", <<"invoke_model", "put_object">>,
                                          s3' # s3)
                            /\ told' = [told EXCEPT ![embedding_id] =
                                          [state |-> "stored", text |-> text,
                                           embedding |-> e, metadata |-> EmptyDict]]
                       ELSE /\ resp' = GenerateFailure(PutObjectOutcome(os), text,
                                          <<"invoke_model", "put_object">>)
                            /\ UNCHANGED <<s3, told>>

\* =========================================================================
\* backend/api/main.py: GET /inter-service (the same handler is in
\* backend/vector/main.py, lines 453-522)
\* =========================================================================
ServiceUrls == {"http://api.local/health", "http://invalid-url.local/health", "ftp://x"}
TargetStatuses == {200, 404, 500, 503}
\* What the target's body holds, and what response.json() makes of it: a
\* dict, a list (which InterServiceResponse.service_response, a dict, rejects),
\* or a JSONDecodeError.
TargetBodies == {"{\"status\": \"healthy\"}", "{\"detail\": \"error\"}", "[1, 2]", "<html>"}
ResponseJson(body) ==
    CASE body = "<html>" -> "JSONDecodeError"
      [] body = "[1, 2]" -> "list"
      [] OTHER -> "dict"

\* Exceptions app.state.http_client.get raises: httpx.RequestError classes
\* (the target was not reached, or its answer could not be read), and others
\* (httpx.InvalidURL; RuntimeError from a closed client or event loop).
RequestErrors == {"ConnectError", "ReadTimeout", "UnsupportedProtocol",
                  "TooManyRedirects", "DecodingError"}
OtherGetErrors == {"InvalidURL", "RuntimeError"}

\* The except clauses of call_service (lines 495, 505).
CallServiceHandlersGenericFirst == <<"Exception", "RequestError">>
CallServiceHandlers == <<"RequestError", "Exception">>

InterResponse(url, status, detail, body, raised) ==
    [op |-> "inter-service", url |-> url, status |-> status, detail |-> detail,
     body |-> body, raised |-> raised]
NoInterResponse == InterResponse(NONE, 0, "", NoBody, "none")

\* The response call_service's except clauses give exc raised in its try.
CallServiceFailure(url, exc) ==
    IF Catch(CallServiceHandlers, exc) = "RequestError"
      THEN InterResponse(url, 503,
              "Failed to reach service at " \o url \o ": " \o exc, NoBody, exc)
      ELSE InterResponse(url, 500,
              "Unexpected error calling service at " \o url \o ": " \o exc, NoBody, exc)

\* lifespan startup (line 205) and shutdown (line 214).
LifespanStartup ==
    /\ http_client = UNSET
    /\ http_client' = "open"
    /\ UNCHANGED <<iresp, notInter>>

LifespanShutdown ==
    /\ http_client = "open"
    /\ http_client' = "closed"
    /\ UNCHANGED <<iresp, notInter>>

\* GET /inter-service?service_url=url (lines 445-514): the target answers
\* with (status, body), or the get raises exc.
CallServiceSuccess(url, status, body) ==
    CASE ResponseJson(body) = "dict" ->
            InterResponse(url, 200, "",
               [service_response |-> body, status_code |-> status,
                target_url |-> url], "none")
      [] ResponseJson(body) = "list" ->
            \* InterServiceResponse(...) raises (line 489)
            CallServiceFailure(url, "ValidationError")
      [] OTHER ->
            \* response.json() raises (line 490)
            CallServiceFailure(url, "JSONDecodeError")

CallServiceAnswered(url, status, body) ==
    /\ http_client = "open"
    /\ iresp' = CallServiceSuccess(url, status, body)
    /\ UNCHANGED <<http_client, notInter>>

CallServiceRaised(url, exc) ==
    /\ CASE http_client = UNSET -> exc = "AttributeError"
         [] http_client = "closed" -> exc = "RuntimeError"
         [] OTHER -> exc \in RequestErrors \cup OtherGetErrors
    /\ iresp' = CallServiceFailure(url, exc)
    /\ UNCHANGED <<http_client, notInter>>

\* =========================================================================
\* The services' routes: what each main.py registers while it is imported
\* =========================================================================
Services == {"api", "runner", "apprunner", "s3vector", "vector"}

\* A path is held as its parts after the leading "/": "/" is <<"">>,
\* "/health" is <<"health">>, "/vector/" is <<"vector", "">>.
Route(method, path, handler) == [method |-> method, path |-> path, handler |-> handler]
\* @app.exception_handler(404)
ExceptionHandler(handler) == Route("exception_handler", <<"404">>, handler)

\* FastAPI(...) itself adds the documentation routes.
DocRoutes ==
    << Route("GET", <<"openapi.json">>, "openapi"),
       Route("GET", <<"docs">>, "swagger_ui_html"),
       Route("GET", <<"docs", "oauth2-redirect">>, "swagger_ui_redirect"),
       Route("GET", <<"redoc">>, "redoc_html") >>

ProbeRoutesHealthOnly == << Route("GET", <<"health">>, "health_check") >>
ProbeRoutes ==
    << Route("GET", <<"health">>, "health_check"),
       Route("GET", <<"liveness">>, "liveness_probe"),
       Route("GET", <<"readiness">>, "readiness_probe") >>

GreetingRoutes ==
    << Route("GET", <<"">>, "root"),
       Route("GET", <<"greet">>, "greet"),
       Route("POST", <<"greet">>, "greet_post"),
       Route("GET", <<"error">>, "trigger_error") >>

\* Each decorator is one statement of the module and registers its route.
Each(rs) == [i \in 1..Len(rs) |-> <<rs[i]>>]

\* backend/api/main.py: FastAPI(...) at line 221, the decorators of lines
\* 321-522.
ApiImport ==
    <<DocRoutes>>
    \o Each(ProbeRoutes \o GreetingRoutes
            \o << Route("GET", <<"inter-service">>, "call_service"),
                  ExceptionHandler("not_found_handler") >>)

\* backend/runner/main.py, lines 205-541; backend/apprunner/main.py, 43-304
RunnerImport ==
    <<DocRoutes>>
    \o Each(ProbeRoutes
            \o << Route("GET", <<"api-health">>, "get_api_health") >>
            \o GreetingRoutes
            \o << ExceptionHandler("not_found_handler") >>)

\* backend/s3vector/main.py, lines 129-341
S3VectorImport ==
    <<DocRoutes>>
    \o Each(ProbeRoutes
            \o << Route("POST", <<"embeddings", "generate">>, "generate_embedding"),
                  Route("POST", <<"embeddings", "store">>, "store_embedding"),
                  Route("GET", EmbeddingRoute, "retrieve_embedding") >>)

\* backend/vector/main.py: the router's routes (lines 219-236) ...
VectorRouterRoutes ==
    << Route("GET", <<"health">>, "health_check"),
       Route("GET", <<"status">>, "status"),
       Route("GET", <<"">>, "root") >>
\* ... included with a prefix (line 250): prefix + path
WithPrefix(prefix, rs) ==
    [i \in 1..Len(rs) |-> [rs[i] EXCEPT !.path = <<prefix>> \o @]]
\* ... FastAPI(...) at line 195, the two include_router calls of lines
\* 249-250 and the decorators of lines 258-453
VectorImport ==
    << DocRoutes, VectorRouterRoutes, WithPrefix("vector", VectorRouterRoutes) >>
    \o Each(<< Route("POST", <<"embeddings", "generate">>, "generate_embedding"),
               Route("POST", <<"embeddings", "store">>, "store_embedding"),
               Route("GET", EmbeddingRoute, "retrieve_embedding"),
               Route("DELETE", EmbeddingRoute, "delete_embedding"),
               Route("GET", <<"inter-service">>, "call_service") >>)

AppImport(svc) ==
    CASE svc = "api" -> ApiImport
      [] svc \in {"runner", "apprunner"} -> RunnerImport
      [] svc = "s3vector" -> S3VectorImport
      [] svc = "vector" -> VectorImport

IsRoute(r) == r.method # "exception_handler"

\* The router takes a request to the first route whose path and method
\* match; a path that matches with another method is answered 405; a path
\* that matches a route once a trailing "/" is added or removed is redirected;
\* anything else raises HTTPException(404).
ToggleSlash(path) ==
    IF path[Len(path)] = "" THEN SubSeq(path, 1, Len(path) - 1)
    ELSE Append(path, "")
PathHits(rs, path) ==
    {i \in 1..Len(rs) : IsRoute(rs[i]) /\ RouteMatches(rs[i].path, path)}
Dispatch(rs, method, path) ==
    LET partial == PathHits(rs, path)
        full == {i \in partial : rs[i].method = method}
    IN  CASE full # {} -> rs[CHOOSE i \in full : \A j \in full : i <= j].handler
          [] full = {} /\ partial # {} -> "405"
          [] partial = {} /\ path # <<"">> /\ Len(ToggleSlash(path)) > 0
               /\ PathHits(rs, ToggleSlash(path)) # {} -> "307"
          [] OTHER -> "404"

\* Who answers an HTTPException(404): the handler registered for 404, or
\* the framework's default.
NotFoundByDefault(rs) == "default"
NotFoundBy(rs) ==
    IF \E i \in 1..Len(rs) : ~IsRoute(rs[i]) /\ rs[i].path = <<"404">>
      THEN "not_found_handler" ELSE "default"

\* =========================================================================
\* The handlers of the probes and greetings
\* =========================================================================
\* What a handler gives the framework: a response, or an exception that
\* left it.  calls: the outbound HTTP calls the handler made.
Answer(status, body, calls) ==
    [status |-> status, body |-> body, calls |-> calls, raised |-> "none"]
\* raise HTTPException(status_code, detail)
HttpError(status, detail, calls) ==
    [status |-> status, body |-> [detail |-> detail], calls |-> calls,
     raised |-> "HTTPException"]
\* Any other exception leaves the application: 500 Internal Server Error.
ServerError(exc, calls) ==
    [status |-> 500, body |-> [text |-> "Internal Server Error"], calls |-> calls,
     raised |-> exc]
\* The request did not validate against the handler's parameters: 422, and
\* the handler is not called.
Unprocessable ==
    [status |-> 422, body |-> [detail |-> "validation error"], calls |-> <<>>,
     raised |-> "RequestValidationError"]

\* BaseModel(**kwargs): every required field needs a value; other keywords
\* are ignored.
ModelInit(required, kwargs) ==
    IF required \subseteq DOMAIN kwargs
      THEN [ok |-> TRUE, value |-> [f \in required |-> kwargs[f]]]
      ELSE [ok |-> FALSE, value |-> "ValidationError"]

\* f(*args) for a function whose parameters have no defaults.
CallPositional(params, args) ==
    IF Len(args) = Len(params)
      THEN [ok |-> TRUE, value |-> [n \in {params[i] : i \in 1..Len(params)} |->
                                      args[CHOOSE i \in 1..Len(params) : params[i] = n]]]
      ELSE [ok |-> FALSE, value |-> "TypeError"]

\* The HealthResponse class of each module.
CommonHealthResponse == {"status", "timestamp", "uptime_seconds", "name", "version"}
ApiHealthResponse == {"status", "timestamp", "uptime_seconds", "version"}
RunnerHealthResponse == {"status", "timestamp", "uptime_seconds", "version", "service_name"}
S3VectorHealthResponse ==
    {"status", "timestamp", "uptime_seconds", "version", "bedrock_configured", "s3_configured"}

SERVICE_VERSION(svc) == IF svc \in {"s3vector", "vector"} THEN "1.0.0" ELSE "0.1.0"
Versions == {"0.1.0", "1.0.0"}
StartTimes == {"t0", "t1"}

\* agsys/common/health.py: the keywords both helpers give HealthResponse.
HealthKwargs(service_version, start_time) ==
    [status |-> "healthy", timestamp |-> "now", uptime_seconds |-> <<"now", start_time>>,
     version |-> service_version]

HealthCheckSimpleParams == <<"service_version", "start_time">>
CreateHealthEndpointParams == <<"service_name", "service_version", "start_time">>

\* await health_check_simple(*args)
HealthCheckSimple(args) ==
    LET b == CallPositional(HealthCheckSimpleParams, args)
    IN  IF b.ok
          THEN ModelInit(CommonHealthResponse,
                         HealthKwargs(b.value.service_version, b.value.start_time))
          ELSE b
\* await create_health_endpoint(*args)()
CreateHealthEndpoint(args) ==
    LET b == CallPositional(CreateHealthEndpointParams, args)
    IN  IF b.ok
          THEN ModelInit(CommonHealthResponse,
                         HealthKwargs(b.value.service_version, b.value.start_time))
          ELSE b

\* A handler that returns what a call gave, or lets its exception out.
Returning(call) ==
    IF call.ok THEN Answer(200, call.value, <<>>) ELSE ServerError(call.value, <<>>)

\* GET /health of each service.
HealthCheck(svc) ==
    CASE svc = "api" ->
            Returning(ModelInit(ApiHealthResponse, HealthKwargs(SERVICE_VERSION(svc), "t0")))
      [] svc \in {"runner", "apprunner"} ->
            Returning(ModelInit(RunnerHealthResponse,
               HealthKwargs(SERVICE_VERSION(svc), "t0") @@ [service_name |-> svc]))
      [] svc = "s3vector" ->
            Returning(ModelInit(S3VectorHealthResponse,
               HealthKwargs(SERVICE_VERSION(svc), "t0")
               @@ [bedrock_configured |-> TRUE, s3_configured |-> Truthy(bucket_name)]))
      [] svc = "vector" ->
            Returning(HealthCheckSimple(<<svc, SERVICE_VERSION(svc), "t0">>))

\* GET /liveness
LivenessProbe == Answer(200, [status |-> "alive"], <<>>)

\* GET /readiness of runner and apprunner: the API service's /health
\* answers with a status, or the get raises.
ReadinessHandlers == <<"RequestError">>
ReadinessOkStatusAny(status) == status \in TargetStatuses
ReadinessOkStatus(status) == status = 200
UpstreamOutcomes ==
    [kind : {"answered"}, status : TargetStatuses, exc : {"none"}]
    \cup [kind : {"raised"}, status : {0},
          exc : RequestErrors \cup OtherGetErrors \cup {"AttributeError"}]
NoUpstream == [kind |-> "nocall", status |-> 0, exc |-> "none"]
UpstreamReadiness(up) ==
    IF up.kind = "answered"
      THEN IF ReadinessOkStatus(up.status)
             THEN Answer(200, [status |-> "ready"], <<"GET /health">>)
             ELSE HttpError(503, "API service returned status " \o ToString(up.status),
                            <<"GET /health">>)
      ELSE IF Catch(ReadinessHandlers, up.exc) = "RequestError"
             THEN HttpError(503, "Cannot reach API service: " \o up.exc, <<"GET /health">>)
             ELSE ServerError(up.exc, IF up.exc = "AttributeError" THEN <<>>
                                      ELSE <<"GET /health">>)

\* GET /readiness of each service that has one.
ReadinessProbe(svc, up) ==
    CASE svc = "api" -> Answer(200, [status |-> "ready"], <<>>)
      [] svc = "s3vector" ->
            IF ~Truthy(bucket_name) THEN HttpError(503, "S3 bucket not configured", <<>>)
            ELSE Answer(200, [status |-> "ready"], <<>>)
      [] OTHER -> UpstreamReadiness(up)

\* GET /, GET /greet, POST /greet, GET /error
Root(svc) ==
    IF svc = "vector"
      THEN Answer(200, [service |-> svc, version |-> SERVICE_VERSION(svc),
                        message |-> "Welcome to " \o svc \o " service"], <<>>)
      ELSE Answer(200, [message |-> "Hello, World!", version |-> SERVICE_VERSION(svc)], <<>>)
Names == {NONE, "", "Alice"}
Greeting(svc, name) ==
    Answer(200, [message |-> "Hello, " \o name \o "!", version |-> SERVICE_VERSION(svc)], <<>>)
Greet(svc, name) == Greeting(svc, IF name = NONE THEN "World" ELSE name)
GreetPostAcceptsMissing(name) == TRUE
GreetPostAccepts(name) == name # NONE
GreetPost(svc, name) == IF GreetPostAccepts(name) THEN Greeting(svc, name) ELSE Unprocessable
TriggerError == HttpError(500, "This is a test error", <<>>)

\* GET /inter-service: service_url is a required query parameter.
ServiceUrlArgs == {NONE, "http://api.local/health"}
AsAnswer(r) ==
    [status |-> r.status,
     body |-> IF r.status = 200 THEN r.body ELSE [detail |-> r.detail],
     calls |-> IF r.raised = "AttributeError" THEN <<>> ELSE <<"GET " \o r.url>>,
     raised |-> IF r.status = 200 THEN "none" ELSE "HTTPException"]
CallService(service_url, up, body) ==
    IF service_url = NONE THEN Unprocessable
    ELSE IF up.kind = "answered"
           THEN AsAnswer(CallServiceSuccess(service_url, up.status, body))
           ELSE AsAnswer(CallServiceFailure(service_url, up.exc))

\* The handlers registered for 404, and the framework's own answers.
AvailableEndpoints(svc) ==
    IF svc = "api"
      THEN <<"/", "/health", "/liveness", "/readiness", "/greet", "/inter-service",
             "/docs", "/redoc", "/openapi.json">>
      ELSE <<"/", "/health", "/liveness", "/readiness", "/api-health", "/greet",
             "/docs", "/redoc", "/openapi.json">>
RECURSIVE UrlPath(_)
UrlPath(path) ==
    IF path = <<>> THEN "" ELSE "/" \o path[1] \o UrlPath(Tail(path))
NotFoundHandler(svc, path) ==
    [status |-> 404,
     body |-> [error |-> "Not Found",
               message |-> "The path " \o UrlPath(path) \o " was not found",
               available_endpoints |-> AvailableEndpoints(svc)],
     calls |-> <<>>, raised |-> "HTTPException"]
DefaultNotFound == HttpError(404, "Not Found", <<>>)
MethodNotAllowed == HttpError(405, "Method Not Allowed", <<>>)
RedirectSlashes(path) ==
    [status |-> 307, body |-> [location |-> UrlPath(ToggleSlash(path))],
     calls |-> <<>>, raised |-> "none"]

\* =========================================================================
\* A service process: import, then one request after another
\* =========================================================================
WebResponse(op, method, path, handler, args, name, service_url, up, answer) ==
    [op |-> op, method |-> method, path |-> path, handler |-> handler,
     args |-> args, name |-> name, service_url |-> service_url, up |-> up,
     status |-> answer.status, body |-> answer.body, calls |-> answer.calls,
     raised |-> answer.raised]
NoWebResponse ==
    WebResponse("none", "", <<>>, "none", <<>>, NONE, NONE, NoUpstream, Answer(0, NoBody, <<>>))

Imported == imported = Len(AppImport(service))

\* The next registering statement of main.py runs.
Register ==
    /\ ~Imported
    /\ imported' = imported + 1
    /\ routes' = routes \o AppImport(service)[imported + 1]
    /\ UNCHANGED <<service, wresp, notWeb>>

\* The paths requests come to.
WebPaths ==
    { <<"">>, <<"health">>, <<"liveness">>, <<"readiness">>, <<"greet">>, <<"error">>,
      <<"inter-service">>, <<"docs">>, <<"nonexistent">>, <<"health", "">>,
      <<"vector", "health">>, <<"vector", "">>, <<"vector">> }
WebMethods == {"GET", "POST"}

\* What the handler of a route answers.
Handle(svc, handler, path, name, service_url, up, body) ==
    CASE handler = "health_check" -> HealthCheck(svc)
      [] handler = "liveness_probe" -> LivenessProbe
      [] handler = "readiness_probe" -> ReadinessProbe(svc, up)
      [] handler = "root" -> Root(svc)
      [] handler = "greet" -> Greet(svc, name)
      [] handler = "greet_post" -> GreetPost(svc, name)
      [] handler = "trigger_error" -> TriggerError
      [] handler = "call_service" -> CallService(service_url, up, body)
      [] handler = "swagger_ui_html" -> Answer(200, [text |-> "<html>"], <<>>)
      [] handler = "405" -> MethodNotAllowed
      [] handler = "307" -> RedirectSlashes(path)
      [] handler = "404" ->
            IF NotFoundBy(routes) = "not_found_handler"
              THEN NotFoundHandler(svc, path) ELSE DefaultNotFound

\* Which of its inputs a handler reads.
ReadsName(handler) == handler \in {"greet", "greet_post"}
CallsUpstream(svc, handler, service_url) ==
    \/ handler = "readiness_probe" /\ svc \in {"runner", "apprunner"}
    \/ handler = "call_service" /\ service_url # NONE
\* The outcomes a get through app.state.http_client can have.  apprunner's
\* readiness probe opens a client of its own.
UpstreamOutcomesOf(svc, handler) ==
    IF svc = "apprunner"
      THEN {u \in UpstreamOutcomes : u.exc # "AttributeError"}
    ELSE IF http_client = UNSET
      THEN {u \in UpstreamOutcomes : u.exc = "AttributeError"}
    ELSE {u \in UpstreamOutcomes : u.exc # "AttributeError"}

\* A request arrives and is answered.
Serve ==
    /\ Imported
    /\ \E method \in WebMethods, path \in WebPaths :
          LET handler == Dispatch(routes, method, path)
          IN  \E name \in (IF ReadsName(handler) THEN Names ELSE {NONE}),
                 service_url \in (IF handler = "call_service" THEN ServiceUrlArgs
                                  ELSE {NONE}) :
              \E up \in (IF CallsUpstream(service, handler, service_url)
                           THEN UpstreamOutcomesOf(service, handler) ELSE {NoUpstream}) :
              \E body \in (IF handler = "call_service" /\ up.kind = "answered"
                             THEN TargetBodies ELSE {""}) :
                 wresp' = WebResponse("request", method, path, handler, <<>>, name,
                             service_url, up,
                             Handle(service, handler, path, name, service_url, up, body))
    /\ UNCHANGED <<service, routes, imported, notWeb>>

\* The helpers of agsys/common/health.py called as their signatures say.
HealthHelpers == {"health_check_simple", "create_health_endpoint"}
CallHealthHelper ==
    /\ \E helper \in HealthHelpers, v \in Versions, t \in StartTimes :
          LET args == IF helper = "health_check_simple" THEN <<v, t>>
                      ELSE <<service, v, t>>
              call == IF helper = "health_check_simple" THEN HealthCheckSimple(args)
                      ELSE CreateHealthEndpoint(args)
          IN  wresp' = WebResponse(helper, "", <<>>, helper, args, NONE, NONE,
                          NoUpstream, Returning(call))
    /\ UNCHANGED <<service, routes, imported, notWeb>>

\* =========================================================================
\* agsys/common/api_client.py: get_service_url (lines 238-263)
\* =========================================================================
\* A URL is the sequence of its characters.
UrlChars == {"g", "/"}
Urls == UNION {[1..n -> UrlChars] : n \in 0..MaxUrlLen}
\* An optional URL: None (an argument not given, a variable not set) or a
\* string.
NoUrl == [isNone |-> TRUE, url |-> <<>>]
SomeUrl(u) == [isNone |-> FALSE, url |-> u]
OptionalUrls == {NoUrl} \cup {SomeUrl(u) : u \in Urls}
ServiceNames == {<<"a">>, <<"r", "s">>}

\* s.rstrip(ch)
RECURSIVE RStrip(_, _)
RStripOnce(s, ch) ==
    IF s # <<>> /\ s[Len(s)] = ch THEN SubSeq(s, 1, Len(s) - 1) ELSE s
RStrip(s, ch) ==
    IF s # <<>> /\ s[Len(s)] = ch THEN RStrip(SubSeq(s, 1, Len(s) - 1), ch) ELSE s

\* os.getenv("API_GATEWAY_URL", "")
GetenvGatewayUrl(env) == IF env.isNone THEN <<>> ELSE env.url

Returned(value) == [raised |-> "none", value |-> value]
Raised(exc) == [raised |-> exc, value |-> <<>>]

\* get_service_url(service_name, base_url) in a process whose
\* API_GATEWAY_URL is env.
get_service_url(service_name, base_url, env) ==
    LET given == IF base_url.isNone THEN GetenvGatewayUrl(env) ELSE base_url.url
    IN  IF given = <<>> THEN Raised("ValueError")
        ELSE Returned(RStrip(given, "/") \o <<"/">> \o service_name)

UrlCall(service_name, base_url, outcome) ==
    [op |-> "get_service_url", service_name |-> service_name, base_url |-> base_url,
     outcome |-> outcome]
NoUrlCall == [UrlCall(<<>>, NoUrl, Returned(<<>>)) EXCEPT !.op = "none"]

CallGetServiceUrl ==
    /\ \E service_name \in ServiceNames, base_url \in OptionalUrls :
          url_call' = UrlCall(service_name, base_url,
                              get_service_url(service_name, base_url, gateway_url))
    /\ UNCHANGED <<gateway_url, notUrl>>

\* =========================================================================
\* The client properties read directly: ServiceAPIClient.secrets_client
\* (agsys/common/api_client.py, lines 80-85), AWSClients.bedrock and
\* AWSClients.s3 (backend/vector/main.py, lines 76-95)
\* =========================================================================
ClientKinds == {"secretsmanager", "bedrock-runtime", "s3"}
\* boto3.client returns a new client, or raises (no region configured, an
\* unknown profile, an invalid region name).
Boto3Outcomes == {"ok", "NoRegionError"}
\* The client the n-th call of boto3.client(kind) returns: a new object.
ClientObject(kind, n) == kind \o "#" \o ToString(n)

Access(kind, raised, value) == [kind |-> kind, raised |-> raised, value |-> value]
NoAccess == Access("none", "none", NONE)

\* The property `kind` is read while its attribute holds attr; o is what
\* boto3.client does if it is called.  held is the attribute afterwards.
ReadProperty(kind, attr, o, held) ==
    IF LazyClient(attr, "new") = "new"
      THEN \* boto3.client is called
           /\ boto3_calls[kind] < MaxCreateCalls
           /\ boto3_calls' = [boto3_calls EXCEPT ![kind] = @ + 1]
           /\ IF o = "ok"
                THEN /\ held = LazyClient(attr, ClientObject(kind, boto3_calls'[kind]))
                     /\ accessed' = Access(kind, "none", held)
                ELSE /\ held = attr
                     /\ accessed' = Access(kind, o, NONE)
      ELSE /\ o = "ok"
           /\ held = LazyClient(attr, "new")
           /\ accessed' = Access(kind, "none", held)
           /\ UNCHANGED boto3_calls

AccessSecretsClient ==
    /\ constructed = "yes"
    /\ \E o \in Boto3Outcomes :
          ReadProperty("secretsmanager", secrets_client, o, secrets_client')
    /\ UNCHANGED <<notClientNorStore, storeVars, environ, constructed, init_args,
                   project_name, environment, cache_api_key, cached_api_key,
                   async_client, secret_version, pc, frame, last, hist>>

AccessBedrock ==
    /\ \E o \in Boto3Outcomes :
          ReadProperty("bedrock-runtime", bedrock_client, o, bedrock_client')
    /\ UNCHANGED <<notClientNorStore, clientVars, bucket_name, s3, s3_client, resp,
                   told, req>>

AccessS3 ==
    /\ \E o \in Boto3Outcomes : ReadProperty("s3", s3_client, o, s3_client')
    /\ UNCHANGED <<notClientNorStore, clientVars, bucket_name, s3, bedrock_client,
                   resp, told, req>>

\* =========================================================================
\* agsys/common/api_client.py: the asynchronous HTTP client and its tasks
\* =========================================================================
\* The coroutines that share one ServiceAPIClient on one event loop. A
\* coroutine runs without interruption from one await that suspends to the
\* next; the awaits that suspend are the network exchange of a request and
\* the closing of the connections inside httpx.AsyncClient.aclose.
CloseOps == {"aclose", "__aexit__"}
KeyOutcomes == {"ok", "clienterror"}
ExchangeOutcomes == {"response", "ConnectError"}

NoClients == [c \in {} |-> "open"]
IdleTask == [at |-> "idle", op |-> "none", client |-> NONE]
NoHttpEvent == [event |-> "none", task |-> 0, op |-> "none", client |-> NONE,
                state |-> "none", outcome |-> "none"]
HttpEvent(event, t, op, client, state, outcome) ==
    [event |-> event, task |-> t, op |-> op, client |-> client,
     state |-> state, outcome |-> outcome]

\* httpx.AsyncClient(timeout=..., limits=...) (lines 149-152): a new object.
NewAsyncClient == ClientObject("AsyncClient", Cardinality(DOMAIN http_clients) + 1)

\* Lines 147-154, _get_async_client: the attribute after the call.
GetAsyncClient == IF async_client = NONE THEN NewAsyncClient ELSE async_client

\* Lines 156-220, get/post/put/delete, up to the await of the exchange:
\* _get_async_client, then _get_headers (get_api_key, whose Secrets Manager
\* call has outcome o when the cache misses), then client.<m>(...), which
\* raises RuntimeError at once when the httpx client has been closed.
StartRequest(t, m, o) ==
    /\ constructed = "yes"
    /\ task[t].at = "idle"
    /\ async_client = NONE => Cardinality(DOMAIN http_clients) < MaxHttpClients
    /\ LET client == GetAsyncClient
           clients == IF async_client = NONE
                      THEN (client :> "open") @@ http_clients ELSE http_clients
           fetched == ~CacheHit
       IN  /\ async_client' = client
           /\ http_clients' = clients
           /\ secrets_client' = IF fetched
                                THEN LazyClient(secrets_client, "secretsmanager")
                                ELSE secrets_client
           /\ cached_api_key' = IF fetched /\ o = "ok" /\ StoresFetchedKey
                                THEN SecretString(secret_version)
                                ELSE cached_api_key
           /\ CASE fetched /\ o # "ok" ->
                     /\ hevent' = HttpEvent("raised", t, m, client, clients[client],
                                            GakPropagates(o))
                     /\ UNCHANGED task
                [] ~(fetched /\ o # "ok") /\ clients[client] = "closed" ->
                     /\ hevent' = HttpEvent("send", t, m, client, "closed",
                                            "RuntimeError")
                     /\ UNCHANGED task
                [] OTHER ->
                     /\ hevent' = HttpEvent("send", t, m, client, "open", "pending")
                     /\ task' = [task EXCEPT ![t] = [at |-> "inflight", op |-> m,
                                                     client |-> client]]
    /\ UNCHANGED <<notClientNorAsync, environ, constructed, init_args, project_name,
                   environment, cache_api_key, secret_version, pc, frame, last, hist>>

\* The exchange of a request in flight ends: the caller gets the response, or
\* the exception httpx raised.
FinishRequest(t, outcome) ==
    /\ task[t].at = "inflight"
    /\ hevent' = HttpEvent("done", t, task[t].op, task[t].client,
                           http_clients[task[t].client], outcome)
    /\ task' = [task EXCEPT ![t] = IdleTask]
    /\ UNCHANGED <<notClientNorAsync, clientVars, http_clients>>

\* Lines 222-226, aclose (and lines 233-235, __aexit__, which awaits it):
\*     if self._async_client:
\*         await self._async_client.aclose()
\*         self._async_client = None
\* httpx marks the client closed and then awaits the closing of its
\* connections; when that await suspends, the assignment of None waits for
\* the coroutine to be resumed.
StartAclose(t, op, suspends) ==
    /\ constructed = "yes"
    /\ task[t].at = "idle"
    /\ IF ~Truthy(async_client)
       THEN /\ hevent' = HttpEvent("aclose", t, op, NONE, "none", "noop")
            /\ UNCHANGED <<clientVars, http_clients, task>>
       ELSE /\ http_clients' = [http_clients EXCEPT ![async_client] = "closed"]
            /\ IF suspends /\ http_clients[async_client] = "open"
               THEN /\ task' = [task EXCEPT ![t] = [at |-> "closing", op |-> op,
                                                    client |-> async_client]]
                    /\ hevent' = HttpEvent("aclose", t, op, async_client,
                                           http_clients[async_client], "pending")
                    /\ UNCHANGED clientVars
               ELSE /\ async_client' = NONE
                    /\ hevent' = HttpEvent("aclose", t, op, async_client,
                                           http_clients[async_client], "discarded")
                    /\ UNCHANGED <<task, environ, constructed, init_args,
                                   project_name, environment, cache_api_key,
                                   cached_api_key, secrets_client, secret_version,
                                   pc, frame, last, hist>>
    /\ UNCHANGED notClientNorAsync

\* Line 226 after the await of line 225 was resumed: self._async_client = None,
\* whatever the attribute holds by now.
FinishAclose(t) ==
    /\ task[t].at = "closing"
    /\ async_client' = NONE
    /\ hevent' = HttpEvent("discard", t, task[t].op, async_client,
                           IF async_client = NONE THEN "none"
                           ELSE http_clients[async_client], "discarded")
    /\ task' = [task EXCEPT ![t] = IdleTask]
    /\ UNCHANGED <<notClientNorAsync, http_clients, environ, constructed, init_args,
                   project_name, environment, cache_api_key, cached_api_key,
                   secrets_client, secret_version, pc, frame, last, hist>>

\* =========================================================================
\* backend/{api,vector,s3vector}/main.py: handler(event, context), the entry
\* point the AWS Lambda runtime calls once per invocation
\* =========================================================================
LambdaServices == {"api", "vector", "s3vector"}
\* id(obj) is the address of obj: no two objects alive at once share one.
Addresses == {"0x1", "0x2", "0x3"}
NoLoop == [set |-> FALSE, obj |-> 0, addr |-> "none", closed |-> FALSE]
NoHeld == [client |-> 0, loop |-> 0]
NoInvocation == [n |-> 0, created |-> FALSE, closed_old |-> FALSE,
                 before |-> NoHeld, after |-> NoHeld]
LambdaEvents ==
    { <<"GET", <<"health">>>>, <<"GET", <<"inter-service">>>>,
      <<"GET", <<"nonexistent">>>> }

\* asyncio.new_event_loop(): a new loop object.  The loop set for the thread
\* is still referenced (and alive) while the new one is allocated, so the new
\* one is at another address.
NewLoops ==
    { [set |-> TRUE, obj |-> made.loops + 1, addr |-> a, closed |-> FALSE] :
        a \in Addresses \ {loop.addr} }

\* asyncio.get_running_loop() (vector line 549, s3vector line 418) where the
\* runtime calls handler as a plain function: no loop is running in the
\* thread, whatever loop an earlier invocation set.
GetRunningLoop == "RuntimeError"

\* api lines 561-568: asyncio.get_event_loop() returns the loop set for the
\* thread; a new one is made when none is set or the one set is closed.
ApiKeepsLoop == loop.set /\ ~loop.closed

\* api line 571: not hasattr(app.state, "http_client") or it is None.
NeedsHttpClientAlways(attr) == TRUE
NeedsHttpClient(attr) == attr = UNSET \/ attr = NONE

\* vector lines 559-563: the client is missing, or _loop_id is missing or is
\* not the id of the current loop.
NeedsNewClient(attr, lid, current_loop_id) ==
    attr = UNSET \/ lid = UNSET \/ lid # current_loop_id

\* httpx.AsyncClient(...) assigned to app.state.http_client while `l` is the
\* thread's loop.
NewHeld(l) == [client |-> made.clients + 1, loop |-> l.obj]

\* Mangum(app, lifespan="off")(event, context): the event is routed through the
\* app as a request; cs is app.state.http_client as the handlers find it.
Mangum(cs) ==
    \E ev \in LambdaEvents :
       LET h == Dispatch(routes, ev[1], ev[2])
       IN  \E service_url \in (IF h = "call_service" THEN ServiceUrlArgs ELSE {NONE}) :
           \E up \in (IF CallsUpstream(service, h, service_url)
                        THEN {u \in UpstreamOutcomes :
                                 (u.exc = "AttributeError") <=> (cs = UNSET)}
                        ELSE {NoUpstream}) :
           \E body \in (IF h = "call_service" /\ up.kind = "answered"
                          THEN TargetBodies ELSE {""}) :
              wresp' = WebResponse("invocation", ev[1], ev[2], h, <<>>, NONE,
                          service_url, up,
                          Handle(service, h, ev[2], NONE, service_url, up, body))

Invocation(created, closed_old, after) ==
    [n |-> invocation.n + 1, created |-> created, closed_old |-> closed_old,
     before |-> holds, after |-> after]

MayInvoke(svc) ==
    /\ service = svc
    /\ Imported
    /\ invocation.n < MaxInvocations

\* api/main.py lines 553-580.
ApiHandler ==
    /\ MayInvoke("api")
    /\ \E l \in (IF ApiKeepsLoop THEN {loop} ELSE NewLoops) :
          LET create == NeedsHttpClient(http_client)
              after == IF create THEN NewHeld(l) ELSE holds
          IN  /\ loop' = l
              /\ http_client' = IF create THEN "open" ELSE http_client
              /\ holds' = after
              /\ made' = [loops |-> IF ApiKeepsLoop THEN made.loops ELSE made.loops + 1,
                          clients |-> IF create THEN made.clients + 1
                                      ELSE made.clients]
              /\ invocation' = Invocation(create, FALSE, after)
              /\ Mangum(http_client')
    /\ UNCHANGED <<onlyLambda, loop_id>>

\* vector/main.py lines 536-581.
VectorHandler ==
    /\ MayInvoke("vector")
    /\ \E l \in (IF GetRunningLoop = "RuntimeError" THEN NewLoops ELSE {loop}) :
          LET current_loop_id == l.addr
              create == NeedsNewClient(http_client, loop_id, current_loop_id)
              close == create /\ http_client # UNSET
              after == IF create THEN NewHeld(l) ELSE holds
          IN  /\ loop' = l
              /\ http_client' = IF create THEN "open" ELSE http_client
              /\ loop_id' = IF create THEN current_loop_id ELSE loop_id
              /\ holds' = after
              /\ made' = [loops |-> l.obj,
                          clients |-> IF create THEN made.clients + 1
                                      ELSE made.clients]
              /\ invocation' = Invocation(create, close, after)
              /\ Mangum(http_client')
    /\ UNCHANGED onlyLambda

\* s3vector/main.py lines 406-426: a loop is made and set; app.state gets no
\* HTTP client and no _loop_id.
S3VectorHandler ==
    /\ MayInvoke("s3vector")
    /\ \E l \in (IF GetRunningLoop = "RuntimeError" THEN NewLoops ELSE {loop}) :
          /\ loop' = l
          /\ made' = [made EXCEPT !.loops = l.obj]
          /\ invocation' = Invocation(FALSE, FALSE, holds)
          /\ Mangum(http_client)
    /\ UNCHANGED <<onlyLambda, http_client, loop_id, holds>>

\* ------------------------------------------------------- specifications
\* The vector service as its module is imported: no AWS client yet; an
\* empty bucket.
InitStoreVars(bucket) ==
    /\ bucket_name = bucket
    /\ s3 = EmptyDict
    /\ bedrock_client = NONE
    /\ s3_client = NONE
    /\ resp = NoResponse
    /\ told = [id \in EmbeddingIds |-> NeverTold]
    /\ req = NoRequest

\* A service process before its main.py has registered anything.
InitWebVars(svc) ==
    /\ service = svc
    /\ routes = <<>>
    /\ imported = 0
    /\ wresp = NoWebResponse

\* boto3.client has not been called and no client property has been read.
InitLazyVars ==
    /\ boto3_calls = [k \in ClientKinds |-> 0]
    /\ accessed = NoAccess

\* No coroutine has started and no HTTP client has been made.
InitAsyncVars ==
    /\ http_clients = NoClients
    /\ task = [t \in Threads |-> IdleTask]
    /\ hevent = NoHttpEvent

\* A Lambda container before its first invocation: the module is imported,
\* the lifespan has not run, and the thread has no event loop.
InitLambdaVars ==
    /\ loop = NoLoop
    /\ loop_id = UNSET
    /\ holds = NoHeld
    /\ made = [loops |-> 0, clients |-> 0]
    /\ invocation = NoInvocation

\* The api service as its module is imported: app.state has no http_client.
\* API_GATEWAY_URL is not set and get_service_url has not been called.
InitInterVars ==
    /\ http_client = UNSET
    /\ iresp = NoInterResponse
    /\ gateway_url = NoUrl
    /\ url_call = NoUrlCall
    /\ InitLazyVars
    /\ InitAsyncVars
    /\ InitLambdaVars

\* No ServiceAPIClient yet, in a process with environment env.
InitNoClient(env) ==
    /\ environ = env
    /\ constructed = "no"
    /\ init_args = NoArgs
    /\ project_name = UNSET
    /\ environment = UNSET
    /\ cache_api_key = TRUE
    /\ cached_api_key = UNSET
    /\ async_client = UNSET
    /\ secrets_client = UNSET
    /\ secret_version = 1
    /\ pc = [t \in Threads |-> "idle"]
    /\ frame = [t \in Threads |-> IdleFrame]
    /\ last = NoCall
    /\ hist = FreshHist

DefaultEnviron == [PROJECT_NAME |-> "env", ENVIRONMENT |-> "env"]

\* The constructor applied to every combination of arguments and environment.
InitConstructor ==
    /\ \E env \in [PROJECT_NAME : EnvValues, ENVIRONMENT : EnvValues] : InitNoClient(env)
    /\ InitStoreVars("vectors")
    /\ InitInterVars
    /\ InitWebVars("api")

NextConstructor ==
    \E pn \in ArgValues, en \in ArgValues, ck \in BOOLEAN : Construct(pn, en, ck)

SpecConstructor == InitConstructor /\ [][NextConstructor]_vars

\* A client right after ServiceAPIClient(service_name, cache_api_key=ck) in a
\* process whose environment sets PROJECT_NAME and ENVIRONMENT.
Init ==
    /\ environ = DefaultEnviron
    /\ constructed = "yes"
    /\ cache_api_key \in BOOLEAN
    /\ init_args = [NoArgs EXCEPT !.cache_api_key = cache_api_key]
    /\ project_name = PyOr(NONE, environ.PROJECT_NAME)
    /\ environment = PyOr(NONE, environ.ENVIRONMENT)
    /\ cached_api_key = NONE
    /\ async_client = NONE
    /\ secrets_client = NONE
    /\ secret_version = 1
    /\ pc = [t \in Threads |-> "idle"]
    /\ frame = [t \in Threads |-> IdleFrame]
    /\ last = NoCall
    /\ hist = FreshHist
    /\ InitStoreVars("vectors")
    /\ InitInterVars
    /\ InitWebVars("api")

Step(t, serial, M, H, O) ==
    \/ CallGetApiKey(t, serial)
    \/ \E m \in M, h \in H : CallRequest(t, m, h, serial)
    \/ Gak100(t)
    \/ Gak101(t)
    \/ \E o \in O : Gak106(t, o)
    \/ Gak114(t)
    \/ Send(t)
    \/ Invalidate(t, serial)

\* One call at a time: the calls of a client form a sequence.
Next == (\E t \in Threads : Step(t, TRUE, Methods, HeaderArgs, SMOutcomes)) \/ Rotate

Spec == Init /\ [][Next]_vars

\* Calls from several threads, interleaved statement by statement.  The races
\* are between the statements of get_api_key and invalidate_api_key_cache, so
\* one request method, no caller headers and two Secrets Manager outcomes
\* are enough here.
NextThreads ==
    \/ \E t \in Threads : Step(t, FALSE, {"get"}, {NoHeaders}, {"ok", "clienterror"})
    \/ Rotate

SpecThreads == Init /\ [][NextThreads]_vars

\* The vector service handling one request after another, with
\* VECTOR_BUCKET_NAME set or not.
InitStore ==
    /\ InitNoClient(DefaultEnviron)
    /\ \E b \in {"", "vectors"} : InitStoreVars(b)
    /\ InitInterVars
    /\ InitWebVars("vector")

\* A request arrives at each endpoint; an input is drawn only where the
\* handler reads it.  A GET or DELETE of /embeddings/<id> goes to its handler
\* when the path matches the route.
PostStore ==
    /\ \E id \in EmbeddingIds, text \in Texts, e \in Embeddings,
          m \in MetadataArgs, o \in AwsOutcomes :
          /\ StoreEmbedding(id, text, e, m, o)
          /\ req' = Request("store", text, FALSE, id)
    /\ UNCHANGED <<bedrock_client, bucket_name, notStore>>

GetEmbedding ==
    /\ \E p \in EmbeddingIdParts, o \in AwsOutcomes :
          /\ IF RouteMatches(EmbeddingRoute, <<"embeddings">> \o p)
               THEN RetrieveEmbedding(JoinPath(p), o)
               ELSE NoRoute("retrieve", JoinPath(p))
          /\ req' = Request("retrieve", "", FALSE, JoinPath(p))
    /\ UNCHANGED <<bedrock_client, bucket_name, notStore>>

DeleteRequest ==
    /\ \E p \in EmbeddingIdParts, oh \in AwsOutcomes :
          \E od \in (IF oh = "ok" /\ DeleteKey(JoinPath(p)) \in DOMAIN s3
                      THEN AwsOutcomes ELSE {"ok"}) :
             /\ IF RouteMatches(EmbeddingRoute, <<"embeddings">> \o p)
                  THEN DeleteEmbedding(JoinPath(p), oh, od)
                  ELSE NoRoute("delete", JoinPath(p))
             /\ req' = Request("delete", "", FALSE, JoinPath(p))
    /\ UNCHANGED <<bedrock_client, bucket_name, notStore>>

PostGenerate ==
    /\ \E text \in Texts, st \in BOOLEAN :
          \E id \in (IF st THEN EmbeddingIdArgs ELSE {NONE}),
             ob \in (IF text # "" THEN BedrockOutcomes ELSE {"ok"}) :
          \E e \in (IF text # "" /\ ob = "ok" THEN Embeddings ELSE {<<>>}),
             os \in (IF text # "" /\ ob = "ok" /\ st /\ Truthy(id)
                      THEN AwsOutcomes ELSE {"ok"}) :
             /\ GenerateEmbedding(text, st, id, ob, e, os)
             /\ req' = Request("generate", text, st, id)
    /\ UNCHANGED <<bucket_name, notStore>>

NextStore == PostStore \/ GetEmbedding \/ DeleteRequest \/ PostGenerate

SpecStore == InitStore /\ [][NextStore]_vars

\* The api service from import to shutdown, answering /inter-service.
InitInter ==
    /\ InitNoClient(DefaultEnviron)
    /\ InitStoreVars("vectors")
    /\ InitInterVars
    /\ InitWebVars("api")

NextInter ==
    \/ LifespanStartup
    \/ LifespanShutdown
    \/ \E url \in ServiceUrls, st \in TargetStatuses, body \in TargetBodies :
          CallServiceAnswered(url, st, body)
    \/ \E url \in ServiceUrls,
          exc \in RequestErrors \cup OtherGetErrors \cup {"AttributeError"} :
          CallServiceRaised(url, exc)

SpecInter == InitInter /\ [][NextInter]_vars

\* Any of the five services, from the import of its main.py on.
InitWeb ==
    /\ InitNoClient(DefaultEnviron)
    /\ \E b \in {"", "vectors"} : InitStoreVars(b)
    /\ InitInterVars
    /\ \E svc \in Services : InitWebVars(svc)

\* POST /embeddings/generate comes to vector or s3vector and is routed to
\* generate_embedding.  Bedrock and S3 answer normally here; what their
\* failures do is SpecStore's subject.
ServeGenerate ==
    /\ Imported
    /\ Dispatch(routes, "POST", <<"embeddings", "generate">>) = "generate_embedding"
    /\ \E text \in Texts, st \in BOOLEAN :
          \E id \in (IF st THEN {NONE, "e1"} ELSE {NONE}),
             e \in (IF text # "" THEN {v \in Embeddings : Len(v) = 1} ELSE {<<>>}) :
             /\ GenerateEmbedding(text, st, id, "ok", e, "ok")
             /\ req' = Request("generate", text, st, id)
    /\ UNCHANGED <<bucket_name, notStore>>

NextWeb == Register \/ LifespanStartup \/ Serve \/ ServeGenerate \/ CallHealthHelper

SpecWeb == InitWeb /\ [][NextWeb]_vars

\* get_service_url called in processes with every setting of API_GATEWAY_URL.
InitUrl ==
    /\ InitNoClient(DefaultEnviron)
    /\ InitStoreVars("vectors")
    /\ http_client = UNSET
    /\ iresp = NoInterResponse
    /\ InitWebVars("api")
    /\ gateway_url \in OptionalUrls
    /\ url_call = NoUrlCall
    /\ InitLazyVars
    /\ InitAsyncVars
    /\ InitLambdaVars

NextUrl == CallGetServiceUrl

SpecUrl == InitUrl /\ [][NextUrl]_vars

\* A ServiceAPIClient and the vector service's aws_clients whose client
\* properties are read one after another.
NextLazy == AccessSecretsClient \/ AccessBedrock \/ AccessS3

SpecLazy == Init /\ [][NextLazy]_vars

\* Coroutines on one event loop share one constructed client: requests and
\* closes start and finish in any order.
NextHttp ==
    \/ \E t \in Threads, m \in Methods, o \in KeyOutcomes : StartRequest(t, m, o)
    \/ \E t \in Threads, r \in ExchangeOutcomes : FinishRequest(t, r)
    \/ \E t \in Threads, op \in CloseOps, suspends \in BOOLEAN :
          StartAclose(t, op, suspends)
    \/ \E t \in Threads : FinishAclose(t)

SpecHttp == Init /\ [][NextHttp]_vars

\* One Lambda container of the api, vector or s3vector service: the module is
\* imported, then the runtime invokes handler once per event, one at a time.
InitLambda ==
    /\ InitNoClient(DefaultEnviron)
    /\ InitStoreVars("vectors")
    /\ InitInterVars
    /\ \E svc \in LambdaServices : InitWebVars(svc)

NextLambda == Register \/ ApiHandler \/ VectorHandler \/ S3VectorHandler

SpecLambda == InitLambda /\ [][NextLambda]_vars

\* ------------------------------------------------- claims: ServiceAPIClient
IsKeyCall(c) == c.op \in Methods \cup {"get_api_key"}

\* C1: with cache_api_key enabled and no invalidation in between, once a
\* get_secret_value call has succeeded no further Secrets Manager call is
\* made, and every call started after it (get_api_key or a request) ends with
\* the cached key, which is the key that first fetch returned.
C1_FetchedOnce ==
    cache_api_key =>
        /\ ~hist.refetched
        /\ (IsKeyCall(last) /\ last.startedCached) =>
              /\ last.kind \in {"value", "response"}
              /\ last.sm = "nocall"
              /\ last.key = hist.firstKey
              /\ last.key = cached_api_key

\* A request that was answered from the cache after the secret was rotated.
C1_Witness ==
    /\ cache_api_key
    /\ last.op = "post" /\ last.kind = "response" /\ last.startedCached
    /\ last.key = SecretString(1)
    /\ secret_version = 2

\* C2: a request that goes out carries the header x-api-key with the key
\* get_api_key returned to that call, whatever headers the caller passed, and
\* a request method never completes normally without having sent it.
C2_ApiKeyHeader ==
    /\ last.sent =>
          /\ last.op \in Methods
          /\ last.key \in {SecretString(v) : v \in 1..secret_version}
          /\ "x-api-key" \in DOMAIN last.headers
          /\ last.headers["x-api-key"] = last.key
    /\ (last.op \in Methods /\ last.kind = "response") => last.sent

\* A delete that went out with the caller's accept header and the rotated key.
C2_Witness ==
    /\ last.op = "delete" /\ last.sent
    /\ DOMAIN last.headers = {"accept", "x-api-key"}
    /\ last.headers["x-api-key"] = SecretString(2)

\* C3: the first get_api_key or request after invalidate_api_key_cache calls
\* Secrets Manager again, and every key returned or sent after an
\* invalidation is the key the store held at that invalidation or a later
\* one, never an older one.
C3_RefetchAfterInvalidate ==
    IsKeyCall(last) =>
        /\ last.afterInval => last.sm # "nocall"
        /\ last.kind \in {"value", "response"} =>
              VersionOf(last.key) >= hist.atInval

\* With the cache on: key v1 cached, rotation, invalidation, and the next
\* request carries v2.
C3_Witness ==
    /\ cache_api_key
    /\ last.op = "get" /\ last.sent /\ last.afterInval
    /\ hist.atInval = 2
    /\ last.headers["x-api-key"] = SecretString(2)

\* C4: whenever the key cannot be retrieved (get_secret_value fails in any
\* way, or its response holds no SecretString), the call ends in RuntimeError.
C4_FailureIsRuntimeError ==
    (IsKeyCall(last) /\ last.sm \notin {"ok", "nocall"}) => last.kind = "RuntimeError"

\* C5: under any interleaving, every call that returns gives a key read from
\* the store, and once all calls have ended the cache holds no key older than
\* the one the store held at the last invalidation.
C5_RacesBenign ==
    /\ (IsKeyCall(last) /\ last.kind \in {"value", "response"}) =>
          last.key \in {SecretString(v) : v \in 1..secret_version}
    /\ ((\A t \in Threads : pc[t] = "idle") /\ cached_api_key # NONE) =>
          VersionOf(cached_api_key) >= hist.atInval

\* C6 as stated: ValueError exactly when project_name is neither passed nor
\* set in PROJECT_NAME, or environment neither passed nor set in ENVIRONMENT.
C6_ValueErrorIffAbsent ==
    constructed # "no" =>
        ((constructed = "ValueError") <=>
            \/ init_args.project_name = NONE /\ environ.PROJECT_NAME = NONE
            \/ init_args.environment = NONE /\ environ.ENVIRONMENT = NONE)

\* C6 amended: ValueError exactly when project_name is neither passed as a
\* non-empty string nor set to a non-empty value in PROJECT_NAME, or likewise
\* environment and ENVIRONMENT; otherwise the client exists with no cached
\* key, no HTTP client, no Secrets Manager client, and nothing was called.
C6_ValueErrorIffEmpty ==
    constructed # "no" =>
        /\ (constructed = "ValueError") <=>
              \/ init_args.project_name \in {NONE, ""} /\ environ.PROJECT_NAME \in {NONE, ""}
              \/ init_args.environment \in {NONE, ""} /\ environ.ENVIRONMENT \in {NONE, ""}
        /\ constructed = "yes" =>
              /\ cached_api_key = NONE
              /\ async_client = NONE
              /\ secrets_client = NONE
              /\ last = NoCall /\ hist = FreshHist
              /\ cache_api_key = init_args.cache_api_key

\* PROJECT_NAME is set, to the empty string, and the constructor raises.
C6_Witness ==
    /\ constructed = "ValueError"
    /\ init_args.project_name = NONE /\ environ.PROJECT_NAME = ""
    /\ init_args.environment = "arg"

\* ----------------------------------------------- claims: embedding endpoints
\* In resp, op names the request: "retrieve" is a GET and "delete" a DELETE of
\* /embeddings/<id>, whatever answered it.
IsEmbeddingLookup(r) == r.op \in {"retrieve", "delete"}

\* What a 200 to a GET of a stored id has to hold.
StoredBody(id) ==
    [embedding_id |-> id,
     text |-> told[id].text,
     embedding |-> told[id].embedding,
     dimension |-> Len(told[id].embedding),
     metadata |-> told[id].metadata]

\* C7: after a 200 from POST /embeddings/store, or from POST
\* /embeddings/generate with store_in_s3, and no later store or delete of
\* that id, a GET of /embeddings/<id> (with S3 answering) returns 200 with that
\* id, text and embedding, dimension = the embedding's length, and the
\* metadata stored ({} when none was given).
C7_RoundTrip ==
    (resp.op = "retrieve" /\ told[resp.id].state = "stored" /\ resp.found # "error") =>
        /\ resp.status = 200
        /\ resp.body = StoredBody(resp.id)

\* C7, where it fails: the store of id "a/b" was answered 200, and the GET of
\* /embeddings/a/b is answered 404 with the object in the bucket.
C7_StoredButUnreachable ==
    /\ resp.op = "retrieve" /\ resp.id = "a/b" /\ resp.status = 404
    /\ told["a/b"].state = "stored"
    /\ StoreKey("a/b") \in DOMAIN s3

\* C7 for the ids the route takes: the round trip holds whenever the handler
\* ran and S3 answered.
C7_RoundTripRouted ==
    (resp.op = "retrieve" /\ told[resp.id].state = "stored" /\ resp.found = "found") =>
        /\ resp.status = 200
        /\ resp.body = StoredBody(resp.id)

C7_RoutedWitness ==
    /\ resp.op = "retrieve" /\ resp.id = "e1" /\ resp.status = 200
    /\ resp.body.metadata = ("source" :> "test")
    /\ resp.body.dimension = MaxDim
    /\ resp.body.text = "hello"
    /\ told["a/b"].state = "stored" /\ told["a/b"].text = ""

\* C8: a DELETE that returns 200 reports success and echoes the id, and from
\* then until the id is stored again no GET of it returns 200: it returns 404
\* whenever S3 answers.
C8_DeletedStaysGone ==
    /\ (resp.op = "delete" /\ resp.status = 200) =>
          /\ resp.body.success
          /\ resp.body.embedding_id = resp.id
          /\ told[resp.id].state = "deleted"
          /\ RetrieveKey(resp.id) \notin DOMAIN s3
    /\ (resp.op = "retrieve" /\ told[resp.id].state = "deleted") =>
          /\ resp.status # 200
          /\ resp.found # "error" => resp.status = 404

\* A GET of a deleted id answered 404 by the handler while the other id is
\* still stored.
C8_Witness ==
    /\ resp.op = "retrieve" /\ resp.status = 404 /\ resp.found = "missing"
    /\ told[resp.id].state = "deleted"
    /\ \E id \in EmbeddingIds : told[id].state = "stored"

\* C9: with a bucket configured, a GET or DELETE of an id that has no object
\* in the bucket, S3 answering, returns 404 (never 500), with detail
\* "Embedding not found: <id>" from the handler ("Not Found" when no route
\* takes the path); no delete_object call is made and the bucket is unchanged.
C9_MissingIs404 ==
    [][ ( /\ IsEmbeddingLookup(resp')
          /\ bucket_name # ""
          /\ RetrieveKey(resp'.id) \notin DOMAIN s3
          /\ resp'.found # "error" )
        => /\ resp'.status = 404
           /\ resp'.detail = IF resp'.found = "missing"
                               THEN "Embedding not found: " \o resp'.id
                               ELSE "Not Found"
           /\ \A i \in 1..Len(resp'.calls) : resp'.calls[i] # "delete_object"
           /\ s3' = s3 ]_vars

\* A DELETE of an id never stored answered 404 by the handler while another
\* id is stored.
C9_Witness ==
    /\ resp.op = "delete" /\ resp.status = 404 /\ resp.found = "missing"
    /\ told[resp.id].state = "never"
    /\ DOMAIN s3 # {}

\* ---------------------------------------------------- claims: /inter-service
\* C10: GET /inter-service answers 503 with detail "Failed to reach service
\* at <url>: ..." whenever the outbound get raised an httpx.RequestError, 500
\* whenever anything else failed, and 200 only when the target answered.
C10_UnreachableIs503 ==
    iresp.op = "inter-service" /\ iresp.url # NONE =>
        /\ iresp.raised \in RequestErrors =>
              /\ iresp.status = 503
              /\ iresp.detail = "Failed to reach service at " \o iresp.url
                                   \o ": " \o iresp.raised
        /\ iresp.raised \notin RequestErrors \cup {"none"} => iresp.status = 500
        /\ iresp.status = 200 => iresp.raised = "none"
        /\ iresp.status \in {200, 500, 503}

\* The target could not be connected to and the answer is 503.
C10_Witness ==
    /\ iresp.status = 503
    /\ iresp.raised = "ConnectError"
    /\ iresp.url = "http://invalid-url.local/health"

\* ------------------------------------------- claims: generate and validation
\* The response reports that invoke_model failed.
ReportsBedrockFailure(r) ==
    r.detail \in {"Bedrock error: " \o o : o \in BedrockOutcomes \ {"ok"}}
                 \cup {"Failed to generate embedding: " \o o : o \in BedrockOutcomes \ {"ok"}}

\* C11: POST /embeddings/generate with store_in_s3=true and no or an empty
\* embedding_id (text valid, Bedrock answering) is answered 400 with detail
\* "embedding_id required when store_in_s3=true".
C11_MissingIdIs400 ==
    ( /\ req.op = "generate" /\ req.text # ""
      /\ req.store_in_s3 /\ ~Truthy(req.embedding_id)
      /\ ~ReportsBedrockFailure(resp) )
    => /\ resp.status = 400
       /\ resp.detail = "embedding_id required when store_in_s3=true"

\* C11, where it fails: the request without embedding_id is answered 500,
\* after invoke_model was called.
C11_AnsweredAs500 ==
    /\ req.op = "generate" /\ req.store_in_s3 /\ req.embedding_id = NONE
    /\ resp.status = 500
    /\ resp.detail =
         "Failed to generate embedding: 400: embedding_id required when store_in_s3=true"
    /\ resp.calls = <<"invoke_model">>

\* ------------------------------------------------- claims: probes and routes
HasRoute(method, path) ==
    \E i \in 1..Len(routes) :
       IsRoute(routes[i]) /\ routes[i].method = method /\ routes[i].path = path
HasProbes ==
    /\ HasRoute("GET", <<"health">>)
    /\ HasRoute("GET", <<"liveness">>)
    /\ HasRoute("GET", <<"readiness">>)
\* A greeting endpoint: /greet, or a root that answers with a welcome.
HasGreet == HasRoute("GET", <<"greet">>) /\ HasRoute("POST", <<"greet">>)
HasGreeting == HasGreet \/ HasRoute("GET", <<"">>)

\* C12, as stated: once its main.py is imported, every service has routes
\* for the health, liveness and readiness probes and for a greeting endpoint.
C12_EveryServiceHasProbesAndGreeting ==
    Imported => HasProbes /\ HasGreeting

\* C12, amended: every service has GET /health; api, runner, apprunner and
\* s3vector have GET /liveness and GET /readiness and vector has neither;
\* api, runner and apprunner have GET / and GET and POST /greet, vector has
\* only its root welcome (at / and /vector/), s3vector has no greeting.
C12_ProbesAndGreetingByService ==
    Imported =>
        /\ HasRoute("GET", <<"health">>)
        /\ service # "vector" => HasProbes
        /\ service = "vector" =>
              /\ ~HasRoute("GET", <<"liveness">>) /\ ~HasRoute("GET", <<"readiness">>)
              /\ HasRoute("GET", <<"">>) /\ HasRoute("GET", <<"vector", "">>)
              /\ ~HasRoute("GET", <<"greet">>) /\ ~HasRoute("POST", <<"greet">>)
        /\ service \in {"api", "runner", "apprunner"} =>
              HasGreet /\ HasRoute("GET", <<"">>)
        /\ service = "s3vector" => ~HasGreeting

\* The vector service answers 404 to GET /liveness, and s3vector to /greet.
C12_Witness ==
    /\ Imported
    /\ wresp.op = "request" /\ wresp.status = 404 /\ wresp.method = "GET"
    /\ \/ service = "vector" /\ wresp.path = <<"liveness">>
       \/ service = "s3vector" /\ wresp.path = <<"greet">>

\* C13: health_check_simple(service_version, start_time) and the function
\* create_health_endpoint(service_name, service_version, start_time) returns
\* never raise and give a HealthResponse with status "healthy" and the
\* version they were given, and the vector service answers GET /health with
\* 200 and status "healthy".
C13_HealthHelpersReturnHealthy ==
    /\ wresp.op \in HealthHelpers =>
          /\ wresp.raised = "none"
          /\ wresp.body.status = "healthy"
          /\ wresp.body.version = wresp.args[Len(wresp.args) - 1]
    /\ (wresp.op = "request" /\ service = "vector" /\ wresp.handler = "health_check") =>
          /\ wresp.status = 200
          /\ wresp.raised = "none"
          /\ wresp.body.status = "healthy"

\* C13, where it fails: health_check_simple("1.0.0", t) raises the
\* ValidationError of a HealthResponse built without its required name.
C13_HelperRaisesValidationError ==
    /\ wresp.op = "health_check_simple"
    /\ wresp.args = <<"1.0.0", "t0">>
    /\ wresp.raised = "ValidationError"

C15_InvalidIs422WithoutCalls ==
    /\ (wresp.handler = "greet_post" /\ wresp.name = NONE) =>
          /\ wresp.status = 422
          /\ wresp.raised = "RequestValidationError"
          /\ wresp.calls = <<>>
    /\ (wresp.handler = "call_service" /\ wresp.service_url = NONE) =>
          /\ wresp.status = 422
          /\ wresp.raised = "RequestValidationError"
          /\ wresp.calls = <<>> /\ wresp.up = NoUpstream
    /\ (req.op = "generate" /\ req.text = "") =>
          /\ resp.status = 422
          /\ resp.calls = <<>> /\ ~resp.changed

\* The vector service has answered 422 to an empty text that asked to be
\* stored, and Bedrock and S3 have not been used at all.
C15_Witness ==
    /\ service = "vector"
    /\ req.op = "generate" /\ req.text = "" /\ req.store_in_s3
    /\ resp.status = 422
    /\ bedrock_client = NONE /\ s3_client = NONE /\ s3 = EmptyDict

\* The answer is the one not_found_handler of the api service gives.
IsNotFoundBody(r) ==
    /\ r.status = 404
    /\ DOMAIN r.body = {"error", "message", "available_endpoints"}
    /\ \E i \in 1..Len(r.body.available_endpoints) : r.body.available_endpoints[i] = "/"
    /\ \E i \in 1..Len(r.body.available_endpoints) :
          r.body.available_endpoints[i] = "/inter-service"
Unregistered(path) == PathHits(routes, path) = {}

C17_GenerateResponseIsConsistent ==
    (req.op = "generate" /\ resp.status = 200) =>
        /\ resp.body.dimension = Len(resp.body.embedding)
        /\ resp.body.text_length = Len(req.text)
        /\ resp.body.stored_in_s3 = req.store_in_s3
        /\ ~req.store_in_s3 =>
              /\ resp.body.s3_key = NONE
              /\ resp.calls = <<"invoke_model">> /\ ~resp.changed
        /\ req.store_in_s3 =>
              resp.body.s3_key = "embeddings/" \o req.embedding_id \o ".json"
        /\ resp.body.stored_in_s3 =>
              /\ resp.calls = <<"invoke_model", "put_object">>
              /\ resp.body.s3_key \in DOMAIN s3
              /\ JsonLoads(s3[resp.body.s3_key]).id = req.embedding_id
              /\ JsonLoads(s3[resp.body.s3_key]).text = req.text
              /\ JsonLoads(s3[resp.body.s3_key]).embedding = resp.body.embedding

\* A generate request that asked for storage was answered 200 and its
\* embedding of MaxDim numbers is in the bucket.
C17_Witness ==
    /\ req.op = "generate" /\ req.store_in_s3 /\ req.embedding_id = "a/b"
    /\ resp.status = 200
    /\ resp.body.stored_in_s3
    /\ resp.body.dimension = MaxDim
    /\ resp.body.s3_key = "embeddings/a/b.json"
    /\ "embeddings/a/b.json" \in DOMAIN s3

\* ------------------------------------------------------ claims: get_service_url
\* u is r followed by nothing but "/", and r does not end with "/".
IsStripped(u, r) ==
    /\ Len(r) <= Len(u)
    /\ SubSeq(u, 1, Len(r)) = r
    /\ \A i \in (Len(r) + 1)..Len(u) : u[i] = "/"
    /\ r # <<>> => r[Len(r)] # "/"
\* The value the call ends with is r + "/" + service_name.
ReturnsUnder(c, r) ==
    /\ c.outcome.raised = "none"
    /\ c.outcome.value = r \o <<"/">> \o c.service_name
\* The base URL of a call: the argument, or API_GATEWAY_URL when it is None.
BaseOf(c) == IF ~c.base_url.isNone THEN c.base_url ELSE gateway_url

\* C18, as stated: get_service_url returns the base URL without its
\* trailing slashes, "/" and service_name, the same for base_url and
\* base_url + "/"; base_url defaults to API_GATEWAY_URL; ValueError is raised
\* when no base URL is given and API_GATEWAY_URL is not set.
C18_SameWithTrailingSlash ==
    url_call.op = "get_service_url" =>
        /\ ~BaseOf(url_call).isNone =>
              \E r \in Urls : IsStripped(BaseOf(url_call).url, r) /\ ReturnsUnder(url_call, r)
        /\ ~url_call.base_url.isNone =>
              get_service_url(url_call.service_name,
                              SomeUrl(Append(url_call.base_url.url, "/")), gateway_url)
              = url_call.outcome
        /\ BaseOf(url_call).isNone => url_call.outcome = Raised("ValueError")

\* C18, amended: the above for a base URL that is not the empty string; an
\* empty base_url, or an empty API_GATEWAY_URL when base_url is None, raises
\* ValueError.
C18_ServiceUrl ==
    url_call.op = "get_service_url" =>
        LET base == BaseOf(url_call)
        IN  IF base.isNone \/ base.url = <<>>
              THEN url_call.outcome = Raised("ValueError")
              ELSE /\ \E r \in Urls : IsStripped(base.url, r) /\ ReturnsUnder(url_call, r)
                   /\ ~url_call.base_url.isNone =>
                         get_service_url(url_call.service_name,
                                         SomeUrl(Append(url_call.base_url.url, "/")),
                                         gateway_url)
                         = url_call.outcome

\* get_service_url("rs") with API_GATEWAY_URL = "g//" returned "g/rs".
C18_Witness ==
    /\ url_call.op = "get_service_url"
    /\ url_call.base_url = NoUrl
    /\ gateway_url = SomeUrl(<<"g", "/", "/">>)
    /\ url_call.service_name = <<"r", "s">>
    /\ url_call.outcome = Returned(<<"g", "/", "r", "s">>)

\* ----------------------------------------------- claims: caching and clients
\* C19: with cache_api_key=False the cached key is None in every state, no
\* call ever takes the cached-key return or the caching assignment, and every
\* get_api_key call and every request that ends has called get_secret_value.
C19_NoCacheAlwaysFetches ==
    (constructed = "yes" /\ ~cache_api_key) =>
        /\ cached_api_key = NONE
        /\ \A t \in Threads :
              /\ pc[t] \notin {"gak101", "gak114"}
              /\ pc[t] = "send" => frame[t].sm # "nocall"
        /\ IsKeyCall(last) => last.sm # "nocall"

\* Without the cache a request went out with key v2, fetched by a
\* get_secret_value that followed an earlier successful one.
C19_Witness ==
    /\ ~cache_api_key
    /\ hist.refetched
    /\ last.op = "get" /\ last.sent /\ last.sm = "ok"
    /\ last.key = SecretString(2)
    /\ cached_api_key = NONE

\* The attribute behind each client property.
Held(kind) ==
    CASE kind = "secretsmanager" -> secrets_client
      [] kind = "bedrock-runtime" -> bedrock_client
      [] kind = "s3" -> s3_client

\* C20, as stated: across any sequence of accesses boto3.client is called at
\* most once for secrets_client, for bedrock and for s3, and every access
\* returns that one client.
C20_Boto3CalledAtMostOnce ==
    \A k \in ClientKinds :
       /\ boto3_calls[k] <= 1
       /\ (accessed.kind = k /\ accessed.raised = "none") =>
             accessed.value = ClientObject(k, 1)

\* C20, amended: boto3.client is called only while the attribute holds no
\* client; the call that succeeds sets the attribute, and from then on the
\* attribute never changes, boto3.client is not called again for it, and
\* every access returns the client it holds.  (Calls that raise leave the
\* attribute empty and are repeated by the next access.)
C20_CreatedAtMostOnce ==
    [][\A k \in ClientKinds :
          /\ Held(k) # NONE =>
                /\ Held(k)' = Held(k)
                /\ boto3_calls'[k] = boto3_calls[k]
          /\ Held(k)' # Held(k) =>
                /\ boto3_calls'[k] = boto3_calls[k] + 1
                /\ Held(k)' = ClientObject(k, boto3_calls'[k])
          /\ (accessed'.kind = k /\ accessed'.raised = "none") =>
                /\ Held(k)' # NONE
                /\ accessed'.value = Held(k)']_vars

\* boto3.client("secretsmanager") raised once and then made the client the
\* holder keeps; bedrock and s3 hold their first clients, and the last
\* access returned the held bedrock client.
C20_Witness ==
    /\ boto3_calls = [k \in ClientKinds |-> IF k = "secretsmanager" THEN 2 ELSE 1]
    /\ secrets_client = ClientObject("secretsmanager", 2)
    /\ bedrock_client = ClientObject("bedrock-runtime", 1)
    /\ s3_client = ClientObject("s3", 1)
    /\ accessed = Access("bedrock-runtime", "none", bedrock_client)

\* ------------------------------------------- claims: HTTP client lifecycle
\* C21: whatever the order in which the coroutines' requests and closes start
\* and finish, every request is handed to an HTTP client that is open: none
\* goes to a client that aclose has already closed.
C21_NeverSendsThroughClosed ==
    hevent.event = "send" => hevent.state = "open"

\* A request reached client.<method>() on the closed client that
\* self._async_client still named while another coroutine was inside aclose:
\* no new client was made, and httpx raised RuntimeError.
C21_SentThroughClosed ==
    /\ hevent.event = "send"
    /\ hevent.state = "closed"
    /\ hevent.outcome = "RuntimeError"
    /\ async_client = hevent.client
    /\ \E u \in Threads : u # hevent.task /\ task[u].at = "closing"

\* ------------------------------------------------ claims: Lambda handlers
\* C22: over every sequence of invocations of the api handler in one process,
\* app.state.http_client is created at most once, by the first invocation
\* (which finds none), and every later invocation finds and leaves the same
\* client, still open.
C22_ApiClientCreatedOnce ==
    service = "api" =>
        /\ made.clients <= 1
        /\ invocation.n = 1 => invocation.created
        /\ invocation.n >= 1 => (holds.client = 1 /\ http_client = "open")
        /\ invocation.n >= 2 =>
              (~invocation.created /\ invocation.before = invocation.after)

\* A warm invocation of the api handler that reused the first client.
C22_Witness ==
    /\ service = "api"
    /\ invocation.n >= 2
    /\ ~invocation.created
    /\ invocation.before.client = 1
    /\ holds.client = 1
    /\ made.clients = 1

\* C23: after every invocation of the vector handler app.state._loop_id is the
\* id of the thread's event loop and app.state.http_client was created under
\* that loop, and a warm invocation (any but the container's first) keeps the
\* client the invocation before it left.
C23_WarmInvocationsKeepClient ==
    (service = "vector" /\ invocation.n >= 1) =>
        /\ loop_id = loop.addr
        /\ holds.loop = loop.obj
        /\ invocation.n >= 2 => invocation.before = invocation.after

\* A warm invocation of the vector handler that closed the client it found
\* and created another; so did every invocation before it.
C23_WarmInvocationReplacedClient ==
    /\ service = "vector"
    /\ invocation.n >= 2
    /\ invocation.created
    /\ invocation.closed_old
    /\ invocation.before # invocation.after
    /\ made.clients = invocation.n
    /\ made.loops = invocation.n

\* ------------------------------------------ claims: answers of the target
\* C24: whenever the target answers the outbound get, with whatever status
\* and body, GET /inter-service answers 200 with status_code the target's
\* status, target_url the requested service_url and service_response the
\* target's body.
C24_AnswerIsReturned ==
    [][\A url \in ServiceUrls, st \in TargetStatuses, body \in TargetBodies :
          CallServiceAnswered(url, st, body) =>
              iresp' = InterResponse(url, 200, "",
                          [service_response |-> body, status_code |-> st,
                           target_url |-> url], "none")]_vars

\* The target answered with a body that is not a JSON object, and the
\* endpoint answered 500 "Unexpected error calling service at ...".
C24_AnsweredButIs500 ==
    /\ http_client = "open"
    /\ iresp.op = "inter-service"
    /\ iresp.raised \in {"JSONDecodeError", "ValidationError"}
    /\ iresp.status = 500
    /\ iresp.detail = "Unexpected error calling service at " \o iresp.url
                         \o ": " \o iresp.raised

\* --------------------------------------- claims: SDK failures and statuses
\* The embedding endpoints called while an SDK call fails: what each of them
\* answers must have status `clientError` when the failure is a ClientError
\* other than "not found", per endpoint, and `other` when it is any other
\* exception.  The step is the handling of request req'.
SdkFailureStatuses(generate, store, retrieve, delete, other) ==
    LET text == req'.text
        st == req'.store_in_s3
        id == req'.embedding_id
    IN  /\ (req'.op = "generate" /\ text # "") =>
              /\ GenerateEmbedding(text, st, id, "ClientError", <<>>, "ok")
                    => resp'.status = generate
              /\ GenerateEmbedding(text, st, id, "OtherError", <<>>, "ok")
                    => resp'.status = other
              /\ \A e \in Embeddings :
                    (st /\ Truthy(id) /\ bucket_name # ""
                       /\ GenerateEmbedding(text, st, id, "ok", e, "ClientError"))
                    => resp'.status = generate
        /\ (req'.op = "store" /\ bucket_name # "") =>
              \A e \in Embeddings, m \in MetadataArgs :
                 StoreEmbedding(id, text, e, m, "ClientError")
                    => resp'.status = store
        /\ (req'.op = "retrieve" /\ bucket_name # "" /\ id \in EmbeddingIds) =>
              (RetrieveEmbedding(id, "ClientError") => resp'.status = retrieve)
        /\ (req'.op = "delete" /\ bucket_name # "" /\ id \in EmbeddingIds) =>
              /\ DeleteEmbedding(id, "ClientError", "ok") => resp'.status = delete
              /\ (DeleteKey(id) \in DOMAIN s3
                    /\ DeleteEmbedding(id, "ok", "ClientError"))
                    => resp'.status = delete

\* C25: in generate, store, retrieve and delete a ClientError of Bedrock or S3
\* other than "not found" is answered 503, and other unexpected failures 500.
C25_SdkFailureIs503 ==
    [][SdkFailureStatuses(503, 503, 503, 503, 500)]_vars

\* C25, amended: generate answers 503 for a ClientError raised in its try
\* (by invoke_model or by put_object) and 500 for any other exception; store,
\* retrieve and delete answer 500 for a ClientError of S3 other than "not
\* found", and 503 only when no bucket is configured, before any S3 call.
C25_SdkFailureStatusByEndpoint ==
    [][/\ SdkFailureStatuses(503, 500, 500, 500, 500)
       /\ (resp'.op \in {"store", "retrieve", "delete"} /\ resp'.status = 503)
             => (bucket_name = "" /\ resp'.calls = <<>>)]_vars

\* put_object failed with a ClientError in store_embedding and the answer was
\* 500 "Failed to store embedding: ...".
C25_Witness ==
    /\ bucket_name # ""
    /\ resp.op = "store"
    /\ resp.status = 500
    /\ resp.detail = "Failed to store embedding: ClientError"
    /\ resp.calls = <<"put_object">>

====
